---- MODULE Spec2Model ----
(***************************************************************************)
(* Hybrid collection engine of saved-posts-mcps: one call of               *)
(* RedditScraper.get_saved (src/src/reddit/scraper.py) or of               *)
(* XScraper.get_bookmarks (src/src/x/scraper.py), from page creation to    *)
(* the return (or the escaping exception), against an arbitrary browser    *)
(* and an arbitrary paginated API (specification Spec); and the life of    *)
(* the browser handles of a scraper over its calls and its close()         *)
(* (specification LifeSpec); and the normalisation of one raw item into a  *)
(* post (specification NormSpec); and the fuzzy search of                  *)
(* src/src/common/fuzzy_search.py (specification FuzzSpec); and the tools  *)
(* of the X server over its bookmarks cache (specification XServerSpec).   *)
(* The second part of the module has RedditScraper.search_saved            *)
(* (SearchSpec), two calls answered by the same responses (PairSpec),      *)
(* calls of _get_context interleaved on one scraper (ConcSpec),            *)
(* XClient.get_all_bookmarks (ClientSpec), the tools of the Reddit server  *)
(* (RedditServerSpec) and XAuthHandler.get_valid_token (AuthSpec).         *)
(***************************************************************************)
EXTENDS Integers, Sequences, FiniteSets, TLC

(* ---- bounds of the model ---- *)
MaxItems == 2          \* items per page response
MaxPagesArg == 3       \* largest max_pages argument tried
MaxLimit == 2          \* largest limit argument tried
MaxRequests == 2       \* matching browser requests observed per call
MaxOps == 3            \* _get_context / close calls made on one scraper
MaxThreshold == 3      \* largest fuzzy_threshold tried
MaxTasks == 2          \* calls of one scraper in flight together
MaxPageRequests == 4   \* page requests of one get_all_bookmarks followed
MaxClock == 2          \* minutes that pass during one get_valid_token
MaxQueries == 2        \* longest queries list tried

(* ---- program constants ---- *)
MaxPolls == 30         \* for _ in range(30)
ShortWordLen == 3      \* len(word_lower) > 3
RatioScale == 10       \* min_ratio = 100 - (threshold * 10)

Ids == {"a", "b"}
Cursors == {"", "c1", "c2"}          \* "" stands for an absent/None/empty cursor
None == <<>>                      \* Optional[int] = None
LimitArgs == {None} \cup { <<n>> : n \in 0..MaxLimit }

Platforms == {"reddit", "x"}
FilterTypes == {"none", "posts", "comments"}

\* What reading the id of a raw item gives: an id, or "" when the item has
\* no id (data.get("id", "") of get_saved; a missing or empty rest_id).
RawIds == Ids \cup {""}

(* A raw item of a page response: its id, its kind and whether            *)
(* normalising it goes through (ok) or raises.  An item of another kind    *)
(* than t3/t1 is never normalised.                                         *)
RawItems(p, ids) ==
    IF p = "reddit"
    THEN [id : ids, kind : {"t3", "t1"}, ok : BOOLEAN]      \* submission, comment
           \cup [id : ids, kind : {"t5"}, ok : {TRUE}]     \* anything else
    ELSE [id : ids, kind : {"tweet"}, ok : BOOLEAN]

VARIABLES
    platform, limit, max_pages, filter_type,   \* the call and its arguments
    api_ids,                                   \* what the id of an item served by
                                               \* the API can be: Ids or RawIds
    pc,                                        \* position in the call
    page_state,                                \* "none" | "open" | "closed"
    page_url,                                  \* page.url after goto
    captured_headers,                          \* "" | "h1" | "h2" | "minimal"
    polls,                                     \* iterations of the capture wait
    collected_posts, seen_ids, cursor, page_num, added_count,
    items_left,                                \* items of the response not yet iterated
    resp_cursor,                               \* continuation cursor of the response
    new_posts,                                 \* X: posts parsed from the response
    stop_reason,                               \* which break left the loop
    outcome, result,                           \* how the call ended
    nreq, nfetch, fetch_cursor,                \* matching requests, fetches issued
    first_seen, repeats, delivered_ok, zero_new, acc_at_fail,
    cancelled_in,                              \* the await at which the call was
                                               \* cancelled, "" if it was not
    \* the scraper object over several calls (LifeSpec)
    lpc,                                       \* position in _get_context / close
    self_playwright, self_browser, self_context,
                                               \* "none" (None) or the state of the
                                               \* handle held: "open" | "closed"
    leaked_playwright,                         \* running drivers no attribute holds
    ops, last_op, close_result,
    \* the normalisation of one raw item (NormSpec)
    npc, raw, norm,
    \* one call of fuzzy_word_match or fuzzy_search (FuzzSpec)
    fz_fn,                                     \* the function called
    fz_pc,                                     \* "idle" | "call" | "done"
    fz_word, fz_text, fz_queries, fz_match_all, fz_threshold,
    fz_out,                                    \* the value returned
    \* the X MCP server, src/src/x/server.py (XServerSpec)
    srv_pc,                                    \* position in the handler
    tool,                                      \* the handler and its arguments
    cached_bookmarks,                          \* None, or <<the list>>
    response,                                  \* ids of the posts returned
    collection,                                \* how the handler's get_bookmarks
                                               \* ended, "none" if not called
    cache_at_call,                             \* the cache when the handler began
    cache_end,                                 \* how the get_bookmarks that filled
                                               \* the cache ended, "none" if empty
    \* one call of RedditScraper.search_saved (SearchSpec)
    search_pc,                                 \* "idle" | "call" | "done"
    search_posts, search_queries, search_match_all, search_threshold,
    search_limit, search_subreddit,            \* the arguments
    search_results,                            \* the list returned
    \* two calls given the same responses, one with a limit (PairSpec)
    pair_pc,                                   \* "idle" | "loop" | "done"
    pair_limit, pair_max_pages, pair_filter,   \* the arguments
    with_limit, no_limit,                      \* the loop state of each call
    \* calls of _get_context interleaved on one scraper (ConcSpec)
    tasks,                                     \* per call: position, local browser,
                                               \* the context returned
    shared,                                    \* self._playwright, ._browser, ._context:
                                               \* 0 (None) or the handle's number
    created,                                   \* drivers, browsers, contexts created
    overlap,                                   \* a call began while another was
                                               \* suspended in _get_context
    \* one XClient.get_all_bookmarks consumed to the end (ClientSpec)
    client_pc,                                 \* "idle" | "loop" | "done" | "raised"
    client_limit,                              \* the argument
    count, pagination_token,                   \* the locals
    page_requests,                             \* get_bookmarks_page calls made
    empty_page,                                \* a response held no tweet and a
                                               \* next_token
    \* the Reddit MCP server, src/src/reddit/server.py (RedditServerSpec)
    saved_cache,                               \* _saved_cache
    account,                                   \* the saved items of the account
    reddit_tool,                               \* the last handler run, "raised"
                                               \* when it raised
    searched,                                  \* the list the last search went
                                               \* through
    handled,                                   \* handlers run so far
    \* one XAuthHandler.get_valid_token (AuthSpec)
    auth_pc,                                   \* "idle" | "call" | "refresh" |
                                               \* "returned" | "raised"
    now,                                       \* datetime.now(), in minutes
    token_data,                                \* self._token_data, or None
    token_file,                                \* what the token file holds, None
                                               \* when there is no file
    access_token                               \* the value returned

callvars == <<platform, limit, max_pages, filter_type, api_ids, pc, page_state, page_url,
          captured_headers, polls, collected_posts, seen_ids, cursor,
          page_num, added_count, items_left, resp_cursor, new_posts,
          stop_reason, outcome, result, nreq, nfetch,
          fetch_cursor, first_seen, repeats, delivered_ok, zero_new,
          acc_at_fail, cancelled_in>>

handles == <<self_playwright, self_browser, self_context, leaked_playwright>>
lifevars == <<lpc, handles, ops, last_op, close_result>>

normvars == <<npc, raw, norm>>
fuzzargs == <<fz_fn, fz_word, fz_text, fz_queries, fz_match_all, fz_threshold>>
fuzzvars == <<fz_pc, fuzzargs, fz_out>>

srvvars == <<srv_pc, tool, cached_bookmarks, response, collection,
             cache_at_call, cache_end>>

searchargs == <<search_posts, search_queries, search_match_all,
                search_threshold, search_limit, search_subreddit>>
searchvars == <<search_pc, searchargs, search_results>>

\* The variables of the specifications of the second part of the module.
pairargs == <<pair_limit, pair_max_pages, pair_filter>>
pairvars == <<pair_pc, pairargs, with_limit, no_limit>>

concvars == <<tasks, shared, created, overlap>>

clientvars == <<client_pc, client_limit, count, pagination_token,
                page_requests, empty_page>>

rsrvvars == <<saved_cache, account, reddit_tool, searched, handled>>

authvars == <<auth_pc, now, token_data, token_file, access_token>>

morevars == <<searchvars, pairvars, concvars, clientvars, rsrvvars, authvars>>

\* What an action of one specification leaves alone of the others.
aux == <<lifevars, normvars, fuzzvars, srvvars, morevars>>
notlife == <<callvars, normvars, fuzzvars, srvvars, morevars>>
notnorm == <<callvars, lifevars, fuzzvars, srvvars, morevars>>
notfuzz == <<callvars, lifevars, normvars, srvvars, morevars>>
notsrv == <<callvars, lifevars, normvars, fuzzvars, morevars>>
firstvars == <<callvars, lifevars, normvars, fuzzvars, srvvars>>
notsearch == <<firstvars, pairvars, concvars, clientvars, rsrvvars,
           authvars>>
notpair == <<firstvars, searchvars, concvars, clientvars, rsrvvars,
           authvars>>
notconc == <<firstvars, searchvars, pairvars, clientvars, rsrvvars,
           authvars>>
notclient == <<firstvars, searchvars, pairvars, concvars, rsrvvars,
           authvars>>
notrsrv == <<firstvars, searchvars, pairvars, concvars, clientvars,
           authvars>>
notauth == <<firstvars, searchvars, pairvars, concvars, clientvars, rsrvvars>>

vars == <<firstvars, morevars>>

args == <<platform, limit, max_pages, filter_type, api_ids>>
loopvars == <<collected_posts, seen_ids, cursor, page_num, added_count,
              items_left, resp_cursor, new_posts>>
ghosts == <<first_seen, repeats, delivered_ok, zero_new, acc_at_fail>>

(* ---- helpers ---- *)
Min(a, b) == IF a < b THEN a ELSE b
Max(a, b) == IF a > b THEN a ELSE b

\* Python truthiness of an Optional[int]: None and 0 are both false.
Truthy(l) == l # None /\ l[1] # 0

\* Python s[:n] for any integer n.
Slice(s, n) ==
    IF n >= 0 THEN SubSeq(s, 1, Min(n, Len(s)))
    ELSE SubSeq(s, 1, Max(0, Len(s) + n))

PostIds(posts) == [i \in 1..Len(posts) |-> posts[i].id]

\* SavedPost built from a raw item.
SavedPost(item) == [id |-> item.id, kind |-> item.kind]


(* ---- navigation ---- *)

\* URLs a navigation can land on: the target, or the site's sign-in or
\* sign-up page.  X sends an unauthenticated /i/bookmarks to /i/flow/login.
LandingUrls(p) ==
    IF p = "reddit" THEN {"target", "login", "register"} ELSE {"target", "login"}

\* Mutant: the test looks for "login" only.
IsLoginRedirect_LoginOnly(p, url) == url = "login"

\* The login test on page.url after goto.
IsLoginRedirect(p, url) ==
    IF p = "reddit" THEN url \in {"login", "register"} ELSE url = "login"

\* dict(request.headers) of the n-th request of the page.
RequestHeaders(n) == IF n = 1 THEN "h1" ELSE "h2"

\* Mutant: every matching request replaces the capture.
CaptureHeaders_LastWins(captured, matches, h) ==
    IF matches THEN h ELSE captured

\* The request observer: the first matching request's headers are kept.
CaptureHeaders(captured, matches, h) ==
    IF matches /\ captured = "" THEN h ELSE captured

(* ---- the pagination loop ---- *)

\* Mutant: the while test is off by one.
LoopGuard_OffByOne(n, maxp) == n <= maxp

\* while page_num < max_pages
LoopGuard(n, maxp) == n < maxp

\* if limit and len(collected_posts) >= limit
LimitReached(l, posts) == Truthy(l) /\ Len(posts) >= l[1]

\* Mutant: the last `limit` posts are kept.
Truncate_Tail(l, posts) ==
    IF Truthy(l) THEN SubSeq(posts, Max(1, Len(posts) - l[1] + 1), Len(posts))
    ELSE posts

\* if limit: collected_posts = collected_posts[:limit]
Truncate(l, posts) == IF Truthy(l) THEN Slice(posts, l[1]) ELSE posts

\* Mutant: the child is not looked up in seen_ids.
RedditChild_NoDedup(st, child, ft) ==
    IF ft = "posts" /\ child.kind # "t3" THEN st
    ELSE IF ft = "comments" /\ child.kind # "t1" THEN st
    ELSE IF child.kind \in {"t3", "t1"}
         THEN IF child.ok
              THEN [posts |-> Append(st.posts, SavedPost(child)),
                    seen |-> st.seen \cup {child.id},
                    added |-> st.added + 1, raised |-> FALSE]
              ELSE [st EXCEPT !.seen = st.seen \cup {child.id}, !.raised = TRUE]
         ELSE [st EXCEPT !.seen = st.seen \cup {child.id}]

\* One iteration of `for child in children` of get_saved.  st.raised is set
\* when _parse_submission/_parse_comment raises: the exception leaves the
\* for loop and is caught by the except clause around the page.
RedditChild(st, child, ft) ==
    IF ft = "posts" /\ child.kind # "t3" THEN st
    ELSE IF ft = "comments" /\ child.kind # "t1" THEN st
    ELSE IF child.id \in st.seen THEN st
    ELSE IF child.kind \in {"t3", "t1"}
         THEN IF child.ok
              THEN [posts |-> Append(st.posts, SavedPost(child)),
                    seen |-> st.seen \cup {child.id},
                    added |-> st.added + 1, raised |-> FALSE]
              ELSE [st EXCEPT !.seen = st.seen \cup {child.id}, !.raised = TRUE]
         ELSE [st EXCEPT !.seen = st.seen \cup {child.id}]

\* The end of an iteration of the while loop of get_saved: the break it
\* takes ("" = go on with the next page).
RedditStop(l, posts, next) ==
    IF LimitReached(l, posts) THEN "limit"
    ELSE IF next = "" THEN "no_cursor" ELSE ""

\* One iteration of `for entry in entries` of _parse_graphql_response: an
\* entry whose parsing raises is skipped by the inner try/except, an entry
\* without rest_id by `if not tweet_id: continue`.
ParseEntryInto(posts, entry) ==
    IF entry.ok /\ entry.id # "" THEN Append(posts, SavedPost(entry)) ELSE posts

\* One iteration of `for post in new_posts` of get_bookmarks.
XPost(st, post) ==
    IF post.id \notin st.seen
    THEN [posts |-> Append(st.posts, post), seen |-> st.seen \cup {post.id},
          added |-> st.added + 1]
    ELSE st

RECURSIVE XPosts(_, _, _)
XPosts(st, posts, i) ==
    IF i > Len(posts) THEN st
    ELSE XPosts(XPost(st, posts[i]), posts, i + 1)

\* The end of an iteration of the while loop of get_bookmarks.
XStop(added, l, posts, next) ==
    IF added = 0 THEN "no_new"
    ELSE IF LimitReached(l, posts) THEN "limit"
    ELSE IF next = "" THEN "no_cursor" ELSE ""

\* get_saved: `after` is read from the response unless the limit test left
\* the loop first.
RedditCursor(reached, cur, next) ==
    IF reached THEN cur ELSE next

\* Mutant: the cursor of the call is never advanced.
XCursor_Stale(stop, cur, next) == cur

\* get_bookmarks: `cursor = next_cursor` is reached only when no test left
\* the loop.
XCursor(stop, cur, next) ==
    IF stop = "" THEN next ELSE cur

\* Mutant: get_bookmarks builds minimal headers too.
NoCaptureFallback_Always(p) == TRUE

\* What follows the capture wait when nothing was captured: get_saved builds
\* minimal headers and goes on, get_bookmarks returns [].
NoCaptureFallback(p) == p = "reddit"

(* ---- normalisation of a raw item ---- *)

Absent == "<absent>"              \* the key is not in the dict
Null == "<null>"                  \* the key is there with a JSON null

\* The sentinel values for a deleted author.
DeletedUsername == "[deleted]"
DeletedId == "deleted"

\* dict.get(key, default): the default is taken only when the key is absent.
Get(v, default) == IF v = Absent THEN default ELSE v

\* A pydantic field declared `str` takes a string only.
IsStr(v) == v \notin {Absent, Null}

NoPost == <<>>
Dropped == [status |-> "dropped", post |-> NoPost]
ParseRaised == [status |-> "raised", post |-> NoPost]

\* Author(...), Media(...) and SavedPost(...): validation raises unless
\* every str field is given a string.
BuildPost(id, p, author_id, username, display_name, media_list) ==
    IF /\ IsStr(id) /\ IsStr(author_id) /\ IsStr(username)
       /\ IsStr(display_name)
       /\ \A i \in DOMAIN media_list : IsStr(media_list[i].url)
    THEN [status |-> "post",
          post |-> [id |-> id, platform |-> p,
                    author |-> [id |-> author_id, username |-> username,
                                display_name |-> display_name,
                                platform |-> p],
                    media |-> media_list]]
    ELSE ParseRaised

\* The URLs tried: one that ends with an image extension, one with .gif,
\* one with neither.
ImageUrl == "i.jpg"
GifUrl == "i.gif"
PageUrl == "page"

\* any(url.endswith(ext) for ext in [".jpg", ".jpeg", ".png", ".gif"])
EndsWithImageExt(u) == u \in {ImageUrl, GifUrl}

\* _parse_submission, media: a preview image is taken when its source has a
\* non-empty url; the direct url is taken when it is non-empty, has an image
\* extension and no preview image was taken.
SubmissionMedia(data) ==
    LET source_url == Get(data.preview_url, Null)
        previews == IF source_url \notin {Null, ""}
                    THEN << [type |-> "image", url |-> source_url] >>
                    ELSE << >>
        url == Get(data.url, "")
    IN IF url \notin {Null, ""} /\ EndsWithImageExt(url) /\ previews = << >>
       THEN << [type |-> IF url = GifUrl THEN "gif" ELSE "image",
                url |-> url] >>
       ELSE previews

\* _parse_graphql_response, media: every media item of type photo, video or
\* animated_gif gives a Media whose url is media_url_https, "" when absent.
TweetMedia(items) ==
    LET TypeOf(m) == Get(m.type, "photo")
        kept == SelectSeq(items, LAMBDA m :
                            TypeOf(m) \in {"photo", "video", "animated_gif"})
    IN [i \in 1..Len(kept) |->
          [type |-> IF TypeOf(kept[i]) = "photo" THEN "image" ELSE "video",
           url |-> Get(kept[i].media_url_https, "")]]

\* _parse_submission: author and id of the post.
ParseSubmission(data) ==
    LET author_name == Get(data.author, DeletedUsername)
        author_id == Get(data.author_fullname, DeletedId)
    IN BuildPost(Get(data.id, ""), "reddit", author_id, author_name,
                 author_name, SubmissionMedia(data))

\* _parse_comment: author and id of the post.
ParseComment(data) ==
    LET author_name == Get(data.author, DeletedUsername)
        author_id == Get(data.author_fullname, DeletedId)
    IN BuildPost(Get(data.id, ""), "reddit", author_id, author_name,
                 author_name, << >>)

\* The body of the loop of _parse_graphql_response for one entry: the entry
\* is left out without rest_id, and when building the post raises.
ParseTweet(tweet) ==
    LET tweet_id == Get(tweet.rest_id, Null)
        username == Get(tweet.screen_name, "")
        display_name == Get(tweet.name, username)
    IN IF tweet_id \in {Null, ""} THEN Dropped
       ELSE BuildPost(tweet_id, "x", Get(tweet.user_rest_id, username),
                      username, display_name, TweetMedia(tweet.media))

\* The raw items normalised: for each field, absent, null or a string.
\* A submission has the url of the source of its preview image (absent
\* without preview) and its direct url; a tweet has at most one media item.
RawMedia ==
    { << >> } \cup
    { << m >> : m \in [type : {Absent, "photo", "video", "poll"},
                       media_url_https : {Absent, Null, "", ImageUrl}] }

RawData ==
    [kind : {"t3"}, id : {Absent, "", "a"},
     author : {Absent, Null, "alice"},
     author_fullname : {Absent, Null, "t2_1"},
     preview_url : {Absent, Null, "", ImageUrl},
     url : {Absent, Null, "", ImageUrl, GifUrl, PageUrl}]
    \cup
    [kind : {"t1"}, id : {Absent, "", "a"},
     author : {Absent, Null, "alice"},
     author_fullname : {Absent, Null, "t2_1"}]
    \cup
    [kind : {"tweet"}, rest_id : {Absent, "", "a"},
     screen_name : {Absent, Null, "bob"}, name : {Absent, Null, "Bob"},
     user_rest_id : {Absent, Null, "u1"}, media : RawMedia]

(* ---- fuzzy search: strings are sequences of characters ---- *)

Uppers == <<"A", "B", "C", "D", "E", "F", "G", "H", "I", "J", "K", "L", "M",
            "N", "O", "P", "Q", "R", "S", "T", "U", "V", "W", "X", "Y", "Z">>
Lowers == <<"a", "b", "c", "d", "e", "f", "g", "h", "i", "j", "k", "l", "m",
            "n", "o", "p", "q", "r", "s", "t", "u", "v", "w", "x", "y", "z">>
Whitespace == {" ", "\t", "\n"}

\* str.lower(), one character.
LowerChar(c) ==
    IF \E i \in 1..Len(Uppers) : Uppers[i] = c
    THEN Lowers[CHOOSE i \in 1..Len(Uppers) : Uppers[i] = c]
    ELSE c

\* str.lower()
LowerStr(str) == [i \in 1..Len(str) |-> LowerChar(str[i])]

\* str.split(): the maximal runs of non-whitespace characters, in order.
\* cur is the run being read, acc the runs already complete.
RECURSIVE SplitFrom(_, _, _, _)
SplitFrom(str, i, cur, acc) ==
    IF i > Len(str)
    THEN IF cur = <<>> THEN acc ELSE Append(acc, cur)
    ELSE IF str[i] \in Whitespace
         THEN SplitFrom(str, i + 1, <<>>,
                        IF cur = <<>> THEN acc ELSE Append(acc, cur))
         ELSE SplitFrom(str, i + 1, Append(cur, str[i]), acc)

Split(str) == SplitFrom(str, 1, <<>>, <<>>)

\* Length of a longest common subsequence of a[i..] and b[j..].
RECURSIVE LcsLen(_, _, _, _)
LcsLen(a, b, i, j) ==
    IF i > Len(a) \/ j > Len(b) THEN 0
    ELSE IF a[i] = b[j] THEN 1 + LcsLen(a, b, i + 1, j + 1)
    ELSE Max(LcsLen(a, b, i + 1, j), LcsLen(a, b, i, j + 1))

\* fuzz.ratio(a, b) >= min_ratio.  rapidfuzz's ratio is the normalised
\* InDel similarity 100 * 2 * lcs / (len(a) + len(b)), 100 for two empty
\* strings; the comparison is made on integers.
RatioAtLeast(a, b, min_ratio) ==
    IF Len(a) + Len(b) = 0 THEN 100 >= min_ratio
    ELSE 200 * LcsLen(a, b, 1, 1) >= min_ratio * (Len(a) + Len(b))

\* Mutant: the text is split without being lowercased.
TextWords_NoLower(text) == Split(text)

\* text_words = text.lower().split()
TextWords(text) == Split(LowerStr(text))

\* Mutant: words of 3 characters are compared fuzzily too.
FuzzyApplies_OffByOne(threshold, word_lower) ==
    threshold > 0 /\ Len(word_lower) >= ShortWordLen

\* if threshold > 0 and len(word_lower) > 3
FuzzyApplies(threshold, word_lower) ==
    threshold > 0 /\ Len(word_lower) > ShortWordLen

\* Mutant: the threshold is not scaled.
MinRatio_NoScale(threshold) == 100 - threshold

\* min_ratio = 100 - (threshold * 10)
MinRatio(threshold) == 100 - (threshold * RatioScale)

\* fuzzy_word_match: the for loop returns True at the first text word that
\* is equal to the word or close enough to it, False after the last one.
FuzzyWordMatch(word, text, threshold) ==
    LET text_words == TextWords(text)
        word_lower == LowerStr(word)
    IN \E k \in 1..Len(text_words) :
         \/ word_lower = text_words[k]
         \/ /\ FuzzyApplies(threshold, word_lower)
            /\ RatioAtLeast(word_lower, text_words[k], MinRatio(threshold))

\* Mutant: match_all is not looked at.
FuzzySearch_AnyOnly(text, qs, all, threshold) ==
    IF qs = <<>> THEN TRUE
    ELSE \E i \in 1..Len(qs) : FuzzyWordMatch(qs[i], text, threshold)

\* fuzzy_search
FuzzySearch(text, qs, all, threshold) ==
    IF qs = <<>> THEN TRUE
    ELSE LET matches == [i \in 1..Len(qs) |->
                           FuzzyWordMatch(qs[i], text, threshold)]
         IN IF all THEN \A i \in 1..Len(qs) : matches[i]
            ELSE \E i \in 1..Len(qs) : matches[i]

\* The inputs tried.
Pythn == <<"p", "y", "t", "h", "n">>
PythonCap == <<"P", "y", "t", "h", "o", "n">>
Cat == <<"c", "a", "t">>
Coat == <<"c", "o", "a", "t">>
Love == <<"l", "o", "v", "e">>
Rust == <<"r", "u", "s", "t">>
Empty == <<>>

LovePython == <<"I", " ", "l", "o", "v", "e", " ", "p", "y", "t", "h", "o", "n", " ", "t", "u", "t", "o", "r", "i", "a", "l", "s">>
CatsCots == <<" ", " ", "C", "a", "t", "s", "\t", "a", "n", "d", " ", " ", "c", "o", "t", "s", "\n">>
PythnCode == <<"P", "Y", "T", "H", "N", " ", "c", "o", "d", "e">>

Texts == {LovePython, CatsCots, PythnCode, Empty}
Words == {Pythn, PythonCap, Cat, Coat, Love, Rust, Empty}
QueryTerms == {Pythn, Cat, Love, Rust}
QueryLists == UNION { [1..n -> QueryTerms] : n \in 0..MaxQueries }

(* ---- the X server ---- *)

\* The lists get_bookmarks can return: distinct ids, in any order.
Collections ==
    { q \in UNION { [1..n -> Ids] : n \in 0..Cardinality(Ids) } :
        \A i, j \in 1..Len(q) : i # j => q[i] # q[j] }

\* How an awaited scraper.get_bookmarks() can end: with the bookmarks, with
\* [] after a login redirect or without captured headers, or by raising.
CollectionEnds == {"ok", "login", "no_capture", "raise"}

\* The tools and the resource, with the arguments that matter to each.
\* hits: the ids of the posts whose content holds the query.
ToolCalls ==
    [name : {"get_x_bookmarks"}, limit : 0..MaxLimit, refresh : BOOLEAN,
     hits : {{}}]
    \cup [name : {"search_x_bookmarks"}, limit : 0..MaxLimit,
          refresh : {FALSE}, hits : SUBSET Ids]
    \cup [name : {"refresh_x_bookmarks", "list_bookmarks"}, limit : {0},
          refresh : {FALSE}, hits : {{}}]

NoTool == [name |-> "none", limit |-> 0, refresh |-> FALSE, hits |-> {}]

\* The test before `_cached_bookmarks = await scraper.get_bookmarks()`.
MustCollect(t, cache) ==
    CASE t.name = "get_x_bookmarks" -> t.refresh \/ cache = None
      [] t.name = "list_bookmarks" -> cache = None
      [] OTHER -> TRUE

\* _cached_bookmarks[:limit] if limit else _cached_bookmarks
LimitBookmarks(posts, n) == IF n # 0 THEN Slice(posts, n) ELSE posts

\* [p for p in posts if query_lower in p.content.lower()]
RECURSIVE Matching(_, _, _)
Matching(posts, hits, i) ==
    IF i > Len(posts) THEN <<>>
    ELSE (IF posts[i] \in hits THEN <<posts[i]>> ELSE <<>>)
           \o Matching(posts, hits, i + 1)

\* XScraper.search_bookmarks
SearchBookmarks(posts, hits, n) ==
    LET results == Matching(posts, hits, 1)
    IN IF n # 0 THEN Slice(results, n) ELSE results

\* The posts in the value a handler returns (refresh_x_bookmarks returns a
\* count only).
Returned(t, posts) ==
    CASE t.name = "get_x_bookmarks" -> LimitBookmarks(posts, t.limit)
      [] t.name = "search_x_bookmarks" -> SearchBookmarks(posts, t.hits, t.limit)
      [] t.name = "list_bookmarks" -> posts
      [] OTHER -> <<>>

(* ---- one iteration of the loop as a function of its response ---- *)

\* The response of a fetch that failed.
FetchFailed == [ok |-> FALSE, items |-> <<>>, cursor |-> ""]

\* for child in children, left at the first child whose parsing raises.
RECURSIVE RedditChildren(_, _, _, _)
RedditChildren(st, children, i, ft) ==
    IF i > Len(children) \/ st.raised THEN st
    ELSE RedditChildren(RedditChild(st, children[i], ft), children, i + 1, ft)

\* for entry in entries of _parse_graphql_response.
RECURSIVE ParseEntries(_, _, _)
ParseEntries(posts, entries, i) ==
    IF i > Len(entries) THEN posts
    ELSE ParseEntries(ParseEntryInto(posts, entries[i]), entries, i + 1)

\* One iteration of the while loop of get_saved on the response resp.
RedditIteration(run, resp, l, ft) ==
    IF resp = FetchFailed
    THEN [run EXCEPT !.page_num = @ + 1, !.stop = "fetch_error"]
    ELSE IF resp.items = <<>>
    THEN [run EXCEPT !.page_num = @ + 1, !.stop = "empty"]
    ELSE LET st == RedditChildren([posts |-> run.posts, seen |-> run.seen,
                                   added |-> 0, raised |-> FALSE],
                                  resp.items, 1, ft)
         IN [posts |-> st.posts, seen |-> st.seen,
             cursor |-> IF st.raised THEN run.cursor
                        ELSE RedditCursor(LimitReached(l, st.posts),
                                          run.cursor, resp.cursor),
             page_num |-> run.page_num + 1,
             stop |-> IF st.raised THEN "parse_error"
                      ELSE RedditStop(l, st.posts, resp.cursor)]

\* One iteration of the while loop of get_bookmarks on the response resp.
XIteration(run, resp, l) ==
    IF resp = FetchFailed
    THEN [run EXCEPT !.page_num = @ + 1, !.stop = "fetch_error"]
    ELSE LET st == XPosts([posts |-> run.posts, seen |-> run.seen,
                           added |-> 0],
                          ParseEntries(<<>>, resp.items, 1), 1)
             stop == XStop(st.added, l, st.posts, resp.cursor)
         IN [posts |-> st.posts, seen |-> st.seen,
             cursor |-> XCursor(stop, run.cursor, resp.cursor),
             page_num |-> run.page_num + 1,
             stop |-> stop]

\* The call goes through the loop once more, or leaves it at the while
\* test; a call that left the loop stays as it is.
Iteration(p, run, resp, l, maxp, ft) ==
    IF run.stop # "" THEN run
    ELSE IF ~LoopGuard(run.page_num, maxp) THEN [run EXCEPT !.stop = "max_pages"]
    ELSE IF p = "reddit" THEN RedditIteration(run, resp, l, ft)
    ELSE XIteration(run, resp, l)

\* The responses: a failed fetch, or the items and the cursor.
PairItems(p) ==
    { it \in RawItems(p, Ids) : it.kind \in {"t3", "t1", "tweet"} }
Responses(p) ==
    {FetchFailed} \cup
    [ok : {TRUE}, items : UNION { [1..n -> PairItems(p)] : n \in 0..MaxItems },
     cursor : Cursors]

(* ---- RedditScraper.search_saved ---- *)

DefaultThreshold == 2

\* Subreddit names, as sequences of characters.
SubPy == <<"P", "y">>
SubPyUpper == <<"P", "Y">>
SubGo == <<"g", "o">>

\* The posts searched: content and metadata["subreddit"].
SearchPosts == [id : Ids, content : {LovePython, CatsCots},
                subreddit : {SubPy, SubGo}]
SearchPostLists ==
    { q \in UNION { [1..n -> SearchPosts] : n \in 0..MaxItems } :
        \A i \in 1..Len(q) : q[i].id = (IF i % 2 = 1 THEN "a" ELSE "b") }
SearchQueryLists == { <<>>, <<Pythn>>, <<Love, Rust>> }
SubredditArgs == {None, SubPyUpper, SubGo}

\* The two tests of the loop body for one item: the subreddit filter when a
\* subreddit is given, then fuzzy_search on the content.
SearchKeeps(item, qs, all, threshold, sub) ==
    /\ sub # None => LowerStr(item.subreddit) = LowerStr(sub)
    /\ FuzzySearch(item.content, qs, all, threshold)

\* The loop of search_saved from item i on: a kept item is appended, and
\* the loop is left when `limit and len(results) >= limit`.
RECURSIVE SearchSavedFrom(_, _, _, _, _, _, _, _)
SearchSavedFrom(posts, i, results, qs, all, threshold, l, sub) ==
    IF i > Len(posts) THEN results
    ELSE IF SearchKeeps(posts[i], qs, all, threshold, sub)
    THEN LET appended == Append(results, posts[i])
         IN IF LimitReached(l, appended) THEN appended
            ELSE SearchSavedFrom(posts, i + 1, appended, qs, all, threshold,
                                 l, sub)
    ELSE SearchSavedFrom(posts, i + 1, results, qs, all, threshold, l, sub)

(* ---- history of the responses, kept for the properties ---- *)

\* Raw items of a response whose ids the collector gets to compare:
\* for Reddit the children that pass filter_type, for X the parsed entries.
Eligible(p, ft, it) ==
    IF p = "reddit"
    THEN ~(ft = "posts" /\ it.kind # "t3") /\ ~(ft = "comments" /\ it.kind # "t1")
    ELSE it.ok /\ it.id # ""

\* Raw items that normalise into a post.
Parsable(p, ft, it) ==
    Eligible(p, ft, it) /\ it.ok /\ (p = "reddit" => it.kind \in {"t3", "t1"})

\* The ids of the eligible items, in the order of their first appearance.
ExtendFirstSeen(fs, p, ft, it) ==
    IF Eligible(p, ft, it) /\ ~(\E k \in 1..Len(fs) : fs[k] = it.id)
    THEN Append(fs, it.id) ELSE fs

\* An eligible item repeats an id that an earlier one carried.
IsRepeat(fs, p, ft, it) ==
    Eligible(p, ft, it) /\ \E k \in 1..Len(fs) : fs[k] = it.id

ExtendDelivered(d, p, ft, it) ==
    IF Parsable(p, ft, it) THEN d \cup {it.id} ELSE d

\* The locals of a call before its first statement.
CallLocals ==
    /\ page_state = "none"
    /\ page_url = ""
    /\ captured_headers = ""
    /\ polls = 0
    /\ collected_posts = <<>>
    /\ seen_ids = {}
    /\ cursor = ""
    /\ page_num = 0
    /\ added_count = 0
    /\ items_left = 0
    /\ resp_cursor = ""
    /\ new_posts = <<>>
    /\ stop_reason = ""
    /\ outcome = "pending"
    /\ result = <<>>
    /\ nreq = 0
    /\ nfetch = 0
    /\ fetch_cursor = ""
    /\ first_seen = <<>>
    /\ repeats = FALSE
    /\ delivered_ok = {}
    /\ zero_new = FALSE
    /\ acc_at_fail = [posts |-> <<>>, nfetch |-> 0]
    /\ cancelled_in = ""

\* No call of get_saved / get_bookmarks is being followed.
CallIdle ==
    /\ limit = None
    /\ max_pages = 0
    /\ filter_type = "none"
    /\ api_ids = Ids
    /\ pc = "idle"
    /\ CallLocals

\* A scraper just constructed: no handle yet.
LifeInit ==
    /\ lpc = "idle"
    /\ self_playwright = "none"
    /\ self_browser = "none"
    /\ self_context = "none"
    /\ leaked_playwright = 0
    /\ ops = 0
    /\ last_op = "none"
    /\ close_result = "none"

\* No raw item is being normalised.
NormIdle == npc = "idle" /\ raw = <<>> /\ norm = Dropped

\* Neither fuzzy_word_match nor fuzzy_search is running.
FuzzIdle ==
    /\ fz_fn = "none"
    /\ fz_pc = "idle"
    /\ fz_word = Empty
    /\ fz_text = Empty
    /\ fz_queries = <<>>
    /\ fz_match_all = TRUE
    /\ fz_threshold = 0
    /\ fz_out = FALSE

\* The X server just started, no handler running.
SrvInit ==
    /\ srv_pc = "idle"
    /\ tool = NoTool
    /\ cached_bookmarks = None
    /\ response = <<>>
    /\ collection = "none"
    /\ cache_at_call = None
    /\ cache_end = "none"

\* A call with any arguments.
SearchIdle ==
    /\ search_pc = "idle"
    /\ search_posts = <<>>
    /\ search_queries = <<>>
    /\ search_match_all = TRUE
    /\ search_threshold = 0
    /\ search_limit = None
    /\ search_subreddit = None
    /\ search_results = <<>>

\* The specifications of the second part of the module at rest.
\* The loop state of a call before its first iteration.
RunStart == [posts |-> <<>>, seen |-> {}, cursor |-> "", page_num |-> 0,
             stop |-> ""]

PairIdle ==
    /\ pair_pc = "idle"
    /\ pair_limit = None
    /\ pair_max_pages = 0
    /\ pair_filter = "none"
    /\ with_limit = RunStart
    /\ no_limit = RunStart

Tasks == 1..MaxTasks

ConcIdle ==
    /\ tasks = [t \in Tasks |-> [pc |-> "idle", browser |-> 0, context |-> 0]]
    /\ shared = [playwright |-> 0, browser |-> 0, context |-> 0]
    /\ created = [playwrights |-> 0, browsers |-> 0, contexts |-> 0]
    /\ overlap = FALSE

ClientStart ==
    /\ count = 0
    /\ pagination_token = ""
    /\ page_requests = 0
    /\ empty_page = FALSE

ClientIdle ==
    /\ client_pc = "idle"
    /\ client_limit = None
    /\ ClientStart

RedditServerStart ==
    /\ saved_cache = <<>>
    /\ reddit_tool = "none"
    /\ searched = <<>>
    /\ handled = 0

RedditServerIdle ==
    /\ account = <<>>
    /\ RedditServerStart

AuthIdle ==
    /\ auth_pc = "idle"
    /\ now = 0
    /\ token_data = None
    /\ token_file = None
    /\ access_token = 0

MoreIdle ==
    /\ SearchIdle /\ PairIdle /\ ConcIdle /\ ClientIdle /\ RedditServerIdle
    /\ AuthIdle

CallInit ==
    /\ platform \in Platforms
    /\ limit \in LimitArgs
    /\ max_pages \in 0..MaxPagesArg
    /\ filter_type \in (IF platform = "reddit" THEN FilterTypes ELSE {"none"})
    /\ pc = "get_context"
    /\ CallLocals
    /\ LifeInit
    /\ NormIdle
    /\ FuzzIdle
    /\ SrvInit
    /\ MoreIdle

\* Every item the API serves has an id.
Init == CallInit /\ api_ids = Ids

\* The API may serve items without id; the calls are made without limit
\* and without filter.
NoIdInit ==
    /\ CallInit
    /\ limit = None
    /\ filter_type = "none"
    /\ api_ids = RawIds

(* ---- the call, step by step ---- *)

\* An exception leaves the call.
Raise ==
    /\ outcome' = "raised"
    /\ result' = <<>>
    /\ pc' = "done"

\* asyncio.CancelledError is raised at the await the call is suspended in
\* and leaves the call: it is no Exception, so `except Exception` does not
\* catch it; finally closes the page.
Cancelled(where) ==
    /\ outcome' = "cancelled"
    /\ result' = <<>>
    /\ page_state' = "closed"
    /\ cancelled_in' = where
    /\ pc' = "done"

\* return <list> from inside the try: finally closes the page.
ReturnList(posts) ==
    /\ outcome' = "returned"
    /\ result' = posts
    /\ page_state' = "closed"
    /\ pc' = "done"

\* context = await self._get_context()
GetContext ==
    /\ pc = "get_context"
    /\ \E r \in {"ok", "raise"} :
         IF r = "ok"
         THEN pc' = "new_page" /\ UNCHANGED <<outcome, result>>
         ELSE Raise
    /\ UNCHANGED cancelled_in
    /\ UNCHANGED <<aux, args, page_state, page_url, captured_headers, polls,
                   loopvars, stop_reason, nreq, nfetch, fetch_cursor, ghosts>>

\* page = await context.new_page()
NewPage ==
    /\ pc = "new_page"
    /\ \E r \in {"ok", "raise"} :
         IF r = "ok"
         THEN /\ pc' = "route"
              /\ page_state' = "open"
              /\ UNCHANGED <<outcome, result>>
         ELSE Raise /\ UNCHANGED page_state
    /\ UNCHANGED cancelled_in
    /\ UNCHANGED <<aux, args, page_url, captured_headers, polls, loopvars,
                   stop_reason, nreq, nfetch, fetch_cursor, ghosts>>

\* await page.route(...): inside _create_page for Reddit (before the try of
\* get_saved), inside the try of get_bookmarks for X (finally closes the page).
InstallRoute ==
    /\ pc = "route"
    /\ \E r \in {"ok", "raise"} :
         IF r = "ok"
         THEN pc' = "goto" /\ UNCHANGED <<outcome, result, page_state>>
         ELSE /\ Raise
              /\ page_state' = IF platform = "x" THEN "closed" ELSE page_state
    /\ UNCHANGED cancelled_in
    /\ UNCHANGED <<aux, args, page_url, captured_headers, polls, loopvars,
                   stop_reason, nreq, nfetch, fetch_cursor, ghosts>>

\* await page.goto(...), then the login test on page.url.
Goto ==
    /\ pc = "goto"
    /\ \E r \in LandingUrls(platform) \cup {"raise", "cancel"} :
         IF r = "raise"
         THEN Raise /\ page_state' = "closed"
                /\ UNCHANGED <<page_url, cancelled_in>>
         ELSE IF r = "cancel"
         THEN Cancelled("goto") /\ UNCHANGED page_url
         ELSE /\ page_url' = r
              /\ UNCHANGED cancelled_in
              /\ IF IsLoginRedirect(platform, r)
                 THEN ReturnList(<<>>)
                 ELSE pc' = "poll" /\ UNCHANGED <<outcome, result, page_state>>
    /\ UNCHANGED <<aux, args, captured_headers, polls, loopvars, stop_reason,
                   nreq, nfetch, fetch_cursor, ghosts>>

\* The "request" handler (capture_headers / capture_graphql_headers) runs for
\* a request of the page while the call is suspended in goto, in
\* wait_for_timeout or in a fetch of the loop.  matches: the URL test of the
\* handler.  nreq counts the matching requests up to the end of the wait.
RequestObserved ==
    /\ pc \in {"goto", "poll", "loop"}
    /\ nreq < MaxRequests
    /\ \E matches \in BOOLEAN :
         /\ captured_headers' = CaptureHeaders(captured_headers, matches,
                                               RequestHeaders(nreq + 1))
         /\ nreq' = IF matches /\ pc # "loop" THEN nreq + 1 ELSE nreq
    /\ UNCHANGED cancelled_in
    /\ UNCHANGED <<aux, args, pc, page_state, page_url, polls, loopvars, stop_reason,
                   outcome, result, nfetch, fetch_cursor, ghosts>>

\* for _ in range(30): if captured_headers: break; await wait_for_timeout(100)
PollWait ==
    /\ pc = "poll"
    /\ captured_headers = ""
    /\ polls < MaxPolls
    /\ \E r \in {"ok", "raise", "cancel"} :
         IF r = "ok"
         THEN /\ polls' = polls + 1
              /\ UNCHANGED <<pc, outcome, result, page_state, cancelled_in>>
         ELSE IF r = "raise"
         THEN Raise /\ page_state' = "closed"
                /\ UNCHANGED <<polls, cancelled_in>>
         ELSE Cancelled("poll") /\ UNCHANGED polls
    /\ UNCHANGED <<aux, args, page_url, captured_headers, loopvars, stop_reason,
                   nreq, nfetch, fetch_cursor, ghosts>>

\* The exit of the capture wait and the `if not captured_headers` after it.
\* The loop variable of the wait is dead from here on.
PollDone ==
    /\ pc = "poll"
    /\ (captured_headers # "" \/ polls = MaxPolls)
    /\ polls' = 0
    /\ IF captured_headers # ""
       THEN /\ pc' = "loop"
            /\ UNCHANGED <<captured_headers, outcome, result, page_state>>
       ELSE IF NoCaptureFallback(platform)
            THEN /\ captured_headers' = "minimal"
                 /\ pc' = "loop"
                 /\ UNCHANGED <<outcome, result, page_state>>
            ELSE ReturnList(<<>>) /\ UNCHANGED captured_headers
    /\ UNCHANGED cancelled_in
    /\ UNCHANGED <<aux, args, page_url, loopvars, stop_reason, nreq, nfetch,
                   fetch_cursor, ghosts>>

\* The while test fails: max_pages iterations were made.
LoopExit ==
    /\ pc = "loop"
    /\ ~LoopGuard(page_num, max_pages)
    /\ stop_reason' = "max_pages"
    /\ pc' = "after_loop"
    /\ UNCHANGED cancelled_in
    /\ UNCHANGED <<aux, args, page_state, page_url, captured_headers, polls,
                   loopvars, outcome, result, nreq, nfetch, fetch_cursor, ghosts>>

\* One iteration whose fetch fails: context.request.get raises (transport)
\* or the response is not ok (http); except Exception: break.
FetchFail ==
    /\ pc = "loop"
    /\ LoopGuard(page_num, max_pages)
    /\ \E why \in {"transport", "http"} : stop_reason' = "fetch_error"
    /\ page_num' = page_num + 1
    /\ nfetch' = nfetch + 1
    /\ fetch_cursor' = cursor
    /\ acc_at_fail' = [posts |-> collected_posts, nfetch |-> nfetch + 1]
    /\ pc' = "after_loop"
    /\ UNCHANGED cancelled_in
    /\ UNCHANGED <<aux, args, page_state, page_url, captured_headers, polls,
                   collected_posts, seen_ids, cursor, added_count, items_left,
                   resp_cursor, new_posts, outcome, result, nreq, first_seen,
                   repeats, delivered_ok, zero_new>>

\* One iteration cancelled while its fetch is awaited.
FetchCancelled ==
    /\ pc = "loop"
    /\ LoopGuard(page_num, max_pages)
    /\ Cancelled("fetch")
    /\ page_num' = page_num + 1
    /\ nfetch' = nfetch + 1
    /\ fetch_cursor' = cursor
    /\ UNCHANGED <<aux, args, page_url, captured_headers, polls,
                   collected_posts, seen_ids, cursor, added_count, items_left,
                   resp_cursor, new_posts, stop_reason, nreq, ghosts>>

\* One iteration whose fetch succeeds: the response has n items and the
\* continuation cursor `next`.  The content of each item is drawn when the
\* loop over the items reaches it.  get_saved leaves the loop at once on a
\* response without children.
FetchPage ==
    /\ pc = "loop"
    /\ LoopGuard(page_num, max_pages)
    /\ \E n \in 0..MaxItems, next \in Cursors :
         /\ items_left' = n
         /\ resp_cursor' = next
         /\ IF platform = "reddit" /\ n = 0
            THEN /\ stop_reason' = "empty"
                 /\ pc' = "after_loop"
                 /\ zero_new' = TRUE
                 /\ UNCHANGED added_count
            ELSE /\ pc' = "items"
                 /\ added_count' = IF platform = "reddit" THEN 0 ELSE added_count
                 /\ zero_new' = FALSE
                 /\ UNCHANGED stop_reason
    /\ new_posts' = <<>>
    /\ page_num' = page_num + 1
    /\ nfetch' = nfetch + 1
    /\ fetch_cursor' = cursor
    /\ UNCHANGED cancelled_in
    /\ UNCHANGED <<aux, args, page_state, page_url, captured_headers, polls,
                   collected_posts, seen_ids, cursor, outcome, result, nreq,
                   first_seen, repeats, delivered_ok, acc_at_fail>>

\* get_saved: one child of the response.  When its normalisation raises, the
\* rest of the response is never looked at; `rest` stands for the ids of the
\* items in it that would have normalised.
ProcessChild ==
    /\ pc = "items"
    /\ platform = "reddit"
    /\ items_left > 0
    /\ \E child \in RawItems(platform, api_ids), rest \in SUBSET api_ids :
         LET st == RedditChild([posts |-> collected_posts, seen |-> seen_ids,
                                added |-> added_count, raised |-> FALSE],
                               child, filter_type)
         IN /\ collected_posts' = st.posts
            /\ seen_ids' = st.seen
            /\ added_count' = st.added
            /\ first_seen' = ExtendFirstSeen(first_seen, platform, filter_type,
                                             child)
            /\ repeats' = (repeats \/ IsRepeat(first_seen, platform,
                                               filter_type, child))
            /\ IF st.raised
               THEN /\ items_left = 1 => rest = {}
                    /\ delivered_ok' = delivered_ok \cup rest
                    /\ items_left' = 0
                    /\ stop_reason' = "parse_error"
                    /\ zero_new' = (st.added = 0)
                    /\ pc' = "after_loop"
               ELSE /\ rest = {}
                    /\ delivered_ok' = ExtendDelivered(delivered_ok, platform,
                                                       filter_type, child)
                    /\ items_left' = items_left - 1
                    /\ UNCHANGED <<stop_reason, zero_new, pc>>
    /\ UNCHANGED cancelled_in
    /\ UNCHANGED <<aux, args, page_state, page_url, captured_headers, polls, cursor,
                   page_num, resp_cursor, new_posts, outcome, result, nreq,
                   nfetch, fetch_cursor, acc_at_fail>>

\* get_saved: the children are done; limit test, then the cursor.
RedditPageEnd ==
    /\ pc = "items"
    /\ platform = "reddit"
    /\ items_left = 0
    /\ stop_reason' = RedditStop(limit, collected_posts, resp_cursor)
    /\ cursor' = RedditCursor(LimitReached(limit, collected_posts), cursor,
                               resp_cursor)
    /\ pc' = IF stop_reason' = "" THEN "loop" ELSE "after_loop"
    /\ zero_new' = (added_count = 0)
    /\ UNCHANGED cancelled_in
    /\ UNCHANGED <<aux, args, page_state, page_url, captured_headers, polls,
                   collected_posts, seen_ids, page_num, added_count, items_left,
                   resp_cursor, new_posts, outcome, result, nreq, nfetch,
                   fetch_cursor, first_seen, repeats, delivered_ok, acc_at_fail>>

\* get_bookmarks: _parse_graphql_response looks at one entry.
ParseEntry ==
    /\ pc = "items"
    /\ platform = "x"
    /\ items_left > 0
    /\ \E entry \in RawItems(platform, api_ids) :
         /\ new_posts' = ParseEntryInto(new_posts, entry)
         /\ first_seen' = ExtendFirstSeen(first_seen, platform, filter_type,
                                          entry)
         /\ repeats' = (repeats \/ IsRepeat(first_seen, platform, filter_type,
                                            entry))
         /\ delivered_ok' = ExtendDelivered(delivered_ok, platform, filter_type,
                                            entry)
    /\ items_left' = items_left - 1
    /\ UNCHANGED cancelled_in
    /\ UNCHANGED <<aux, args, pc, page_state, page_url, captured_headers, polls,
                   collected_posts, seen_ids, cursor, page_num, added_count,
                   resp_cursor, stop_reason, outcome, result, nreq, nfetch,
                   fetch_cursor, zero_new, acc_at_fail>>

\* get_bookmarks: the parsed posts are merged, then the zero-new test, the
\* limit test and the cursor.
XPageEnd ==
    /\ pc = "items"
    /\ platform = "x"
    /\ items_left = 0
    /\ LET st == XPosts([posts |-> collected_posts, seen |-> seen_ids,
                         added |-> 0], new_posts, 1)
           stop == XStop(st.added, limit, st.posts, resp_cursor)
       IN /\ collected_posts' = st.posts
          /\ seen_ids' = st.seen
          /\ added_count' = st.added
          /\ stop_reason' = stop
          /\ cursor' = XCursor(stop, cursor, resp_cursor)
          /\ pc' = IF stop = "" THEN "loop" ELSE "after_loop"
          /\ zero_new' = (st.added = 0)
    /\ UNCHANGED cancelled_in
    /\ UNCHANGED <<aux, args, page_state, page_url, captured_headers, polls,
                   page_num, items_left, resp_cursor, new_posts, outcome, result,
                   nreq, nfetch, fetch_cursor, first_seen, repeats, delivered_ok,
                   acc_at_fail>>

\* After the loop: truncate to limit, return; finally closes the page.
Return ==
    /\ pc = "after_loop"
    /\ collected_posts' = Truncate(limit, collected_posts)
    /\ ReturnList(Truncate(limit, collected_posts))
    /\ UNCHANGED cancelled_in
    /\ UNCHANGED <<aux, args, page_url, captured_headers, polls, seen_ids, cursor,
                   page_num, added_count, items_left, resp_cursor, new_posts,
                   stop_reason, nreq, nfetch, fetch_cursor, ghosts>>

Next ==
    \/ GetContext
    \/ NewPage
    \/ InstallRoute
    \/ Goto
    \/ RequestObserved
    \/ PollWait
    \/ PollDone
    \/ LoopExit
    \/ FetchFail
    \/ FetchCancelled
    \/ FetchPage
    \/ ProcessChild
    \/ RedditPageEnd
    \/ ParseEntry
    \/ XPageEnd
    \/ Return

Spec == Init /\ [][Next]_vars

NoIdSpec == NoIdInit /\ [][Next]_vars

(***************************************************************************)
(* The browser handles of one scraper: _get_context / _get_browser and     *)
(* close() of PlaywrightScraper (RedditScraper inherits them) and of       *)
(* XScraper, called one after the other.                                   *)
(***************************************************************************)

\* The class keeps the driver in self._playwright (PlaywrightScraper) or in
\* a local variable of _get_browser only (XScraper).
KeepsPlaywright(p) == p = "reddit"

\* An exception leaves _get_context.
GetContextRaises == lpc' = "idle"

\* An exception leaves close().
CloseRaises == lpc' = "idle" /\ close_result' = "raised"

\* A call of _get_context: if self._context is None ...
CallGetContext ==
    /\ lpc = "idle"
    /\ ops < MaxOps
    /\ ops' = ops + 1
    /\ last_op' = "get_context"
    /\ lpc' = IF self_context = "none" THEN "get_browser" ELSE "idle"
    /\ UNCHANGED <<notlife, handles, close_result>>

\* _get_browser: if self._browser is None:
\*     playwright = await async_playwright().start()
\* A driver that was held in self._playwright is no longer held once the
\* attribute is assigned again; XScraper holds none beyond this function.
StartPlaywright ==
    /\ lpc = "get_browser"
    /\ IF self_browser # "none"
       THEN lpc' = "new_context" /\ UNCHANGED handles
       ELSE \E r \in {"ok", "raise"} :
              IF r = "raise"
              THEN GetContextRaises /\ UNCHANGED handles
              ELSE /\ lpc' = "launch"
                   /\ IF KeepsPlaywright(platform)
                      THEN /\ self_playwright' = "open"
                           /\ leaked_playwright' =
                                IF self_playwright = "open"
                                THEN leaked_playwright + 1
                                ELSE leaked_playwright
                      ELSE /\ leaked_playwright' = leaked_playwright + 1
                           /\ UNCHANGED self_playwright
                   /\ UNCHANGED <<self_browser, self_context>>
    /\ UNCHANGED <<notlife, ops, last_op, close_result>>

\* self._browser = await playwright.chromium.launch(...)
Launch ==
    /\ lpc = "launch"
    /\ \E r \in {"ok", "raise"} :
         IF r = "ok"
         THEN lpc' = "new_context" /\ self_browser' = "open"
         ELSE GetContextRaises /\ UNCHANGED self_browser
    /\ UNCHANGED <<notlife, self_playwright, self_context, leaked_playwright,
                   ops, last_op, close_result>>

\* self._context = await browser.new_context(...): fails on a browser that
\* was closed.
NewContext ==
    /\ lpc = "new_context"
    /\ \E r \in {"ok", "raise"} :
         IF r = "ok"
         THEN /\ self_browser = "open"
              /\ lpc' = "add_cookies"
              /\ self_context' = "open"
         ELSE GetContextRaises /\ UNCHANGED self_context
    /\ UNCHANGED <<notlife, self_playwright, self_browser, leaked_playwright,
                   ops, last_op, close_result>>

\* await self._context.add_cookies(self.cookies); return self._context
AddCookies ==
    /\ lpc = "add_cookies"
    /\ \E r \in {"ok", "raise"} : lpc' = "idle"
    /\ UNCHANGED <<notlife, handles, ops, last_op, close_result>>

\* A call of close().
CallClose ==
    /\ lpc = "idle"
    /\ ops < MaxOps
    /\ ops' = ops + 1
    /\ last_op' = "close"
    /\ close_result' = "running"
    /\ lpc' = "close_context"
    /\ UNCHANGED <<notlife, handles>>

\* One step of close(): `if self._x: await self._x.close(); self._x = None`.
\* When the await raises the attribute keeps the handle, which the failed
\* close has or has not closed.
CloseStep(held, after) ==
    IF held = "none"
    THEN lpc' = after /\ held' = held /\ UNCHANGED close_result
    ELSE \E r \in {"ok", "raise"} :
           IF r = "ok"
           THEN lpc' = after /\ held' = "none" /\ UNCHANGED close_result
           ELSE CloseRaises /\ held' \in {held, "closed"}

\* close() returns.
CloseReturns ==
    /\ lpc = "close_end"
    /\ lpc' = "idle"
    /\ close_result' = "returned"
    /\ UNCHANGED <<notlife, handles, ops, last_op>>

CloseContext ==
    /\ lpc = "close_context"
    /\ CloseStep(self_context, "close_browser")
    /\ UNCHANGED <<notlife, self_playwright, self_browser, leaked_playwright,
                   ops, last_op>>

\* XScraper.close ends after the browser.
CloseBrowser ==
    /\ lpc = "close_browser"
    /\ CloseStep(self_browser,
                 IF KeepsPlaywright(platform) THEN "stop" ELSE "close_end")
    /\ UNCHANGED <<notlife, self_playwright, self_context, leaked_playwright,
                   ops, last_op>>

\* PlaywrightScraper.close: if self._playwright: await self._playwright.stop()
StopPlaywright ==
    /\ lpc = "stop"
    /\ CloseStep(self_playwright, "close_end")
    /\ UNCHANGED <<notlife, self_browser, self_context, leaked_playwright,
                   ops, last_op>>

LifeNext ==
    \/ CallGetContext
    \/ StartPlaywright
    \/ Launch
    \/ NewContext
    \/ AddCookies
    \/ CallClose
    \/ CloseContext
    \/ CloseBrowser
    \/ StopPlaywright
    \/ CloseReturns

LifeSpecInit ==
    /\ platform \in Platforms
    /\ CallIdle
    /\ LifeInit
    /\ NormIdle
    /\ FuzzIdle
    /\ SrvInit
    /\ MoreIdle

LifeSpec == LifeSpecInit /\ [][LifeNext]_vars

(***************************************************************************)
(* The normalisation of one raw item.                                      *)
(***************************************************************************)

DoParseSubmission ==
    /\ npc = "input"
    /\ raw.kind = "t3"
    /\ norm' = ParseSubmission(raw)
    /\ npc' = "done"
    /\ UNCHANGED <<notnorm, raw>>

DoParseComment ==
    /\ npc = "input"
    /\ raw.kind = "t1"
    /\ norm' = ParseComment(raw)
    /\ npc' = "done"
    /\ UNCHANGED <<notnorm, raw>>

DoParseTweet ==
    /\ npc = "input"
    /\ raw.kind = "tweet"
    /\ norm' = ParseTweet(raw)
    /\ npc' = "done"
    /\ UNCHANGED <<notnorm, raw>>

NormNext == DoParseSubmission \/ DoParseComment \/ DoParseTweet

NormInit ==
    /\ platform = "reddit"
    /\ CallIdle
    /\ LifeInit
    /\ npc = "input"
    /\ raw \in RawData
    /\ norm = Dropped
    /\ FuzzIdle
    /\ SrvInit
    /\ MoreIdle

NormSpec == NormInit /\ [][NormNext]_vars

(***************************************************************************)
(* One call of fuzzy_word_match or of fuzzy_search.                        *)
(***************************************************************************)

DoFuzzyWordMatch ==
    /\ fz_pc = "call"
    /\ fz_fn = "fuzzy_word_match"
    /\ fz_out' = FuzzyWordMatch(fz_word, fz_text, fz_threshold)
    /\ fz_pc' = "done"
    /\ UNCHANGED <<notfuzz, fuzzargs>>

DoFuzzySearch ==
    /\ fz_pc = "call"
    /\ fz_fn = "fuzzy_search"
    /\ fz_out' = FuzzySearch(fz_text, fz_queries, fz_match_all, fz_threshold)
    /\ fz_pc' = "done"
    /\ UNCHANGED <<notfuzz, fuzzargs>>

FuzzNext == DoFuzzyWordMatch \/ DoFuzzySearch

FuzzInit ==
    /\ platform = "reddit"
    /\ CallIdle
    /\ LifeInit
    /\ NormIdle
    /\ fz_fn \in {"fuzzy_word_match", "fuzzy_search"}
    /\ fz_pc = "call"
    /\ fz_text \in Texts
    /\ fz_threshold \in 0..MaxThreshold
    /\ IF fz_fn = "fuzzy_word_match"
       THEN fz_word \in Words /\ fz_queries = <<>> /\ fz_match_all = TRUE
       ELSE fz_word = Empty /\ fz_queries \in QueryLists
              /\ fz_match_all \in BOOLEAN
    /\ fz_out = FALSE
    /\ SrvInit
    /\ MoreIdle

FuzzSpec == FuzzInit /\ [][FuzzNext]_vars

(***************************************************************************)
(* The X server: its tools and its resource, called one after the other,   *)
(* over the module-level _cached_bookmarks.                                *)
(***************************************************************************)

\* A tool or the resource is called: the handler runs up to its await, or
\* up to its return statement when it does not collect.
CallTool ==
    /\ srv_pc \in {"idle", "returned", "failed"}
    /\ \E t \in ToolCalls :
         /\ tool' = t
         /\ srv_pc' = IF MustCollect(t, cached_bookmarks) THEN "collect"
                      ELSE "respond"
    /\ cache_at_call' = cached_bookmarks
    /\ collection' = "none"
    /\ response' = <<>>
    /\ UNCHANGED <<notsrv, cached_bookmarks, cache_end>>

\* _cached_bookmarks = await scraper.get_bookmarks(): the assignment is not
\* made when the call raises.
CollectBookmarks ==
    /\ srv_pc = "collect"
    /\ \E how \in CollectionEnds, posts \in Collections :
         /\ how # "ok" => posts = <<>>
         /\ collection' = how
         /\ IF how = "raise"
            THEN srv_pc' = "failed" /\ UNCHANGED <<cached_bookmarks, cache_end>>
            ELSE /\ srv_pc' = "respond"
                 /\ cached_bookmarks' = <<posts>>
                 /\ cache_end' = how
    /\ UNCHANGED <<notsrv, tool, response, cache_at_call>>

\* The return statement of the handler.
Respond ==
    /\ srv_pc = "respond"
    /\ response' = Returned(tool, cached_bookmarks[1])
    /\ srv_pc' = "returned"
    /\ UNCHANGED <<notsrv, tool, cached_bookmarks, collection, cache_at_call,
                   cache_end>>

XServerNext == CallTool \/ CollectBookmarks \/ Respond

XServerInit ==
    /\ platform = "x"
    /\ CallIdle
    /\ LifeInit
    /\ NormIdle
    /\ FuzzIdle
    /\ SrvInit
    /\ MoreIdle

XServerSpec == XServerInit /\ [][XServerNext]_vars

(***************************************************************************)
(* Properties                                                              *)
(***************************************************************************)

Distinct(ids) == \A i, j \in 1..Len(ids) : i # j => ids[i] # ids[j]

PosIn(seq, x) == CHOOSE k \in 1..Len(seq) : seq[k] = x

\* ids are distinct, all occur in fs, and are in the order they have in fs.
InFirstSeenOrder(ids, fs) ==
    /\ Distinct(ids)
    /\ \A i \in 1..Len(ids) : \E k \in 1..Len(fs) : fs[k] = ids[i]
    /\ \A i, j \in 1..Len(ids) :
         i < j => PosIn(fs, ids[i]) < PosIn(fs, ids[j])

\* C1: the list returned by get_saved / get_bookmarks (and the accumulator
\* at every moment) holds each id at most once, in the order in which the
\* ids were first seen in the responses.
C1_DedupFirstSeenOrder ==
    /\ InFirstSeenOrder(PostIds(collected_posts), first_seen)
    /\ outcome = "returned" => InFirstSeenOrder(PostIds(result), first_seen)

\* A call returned two posts after two fetches in which an id was repeated.
C1_Witness ==
    outcome = "returned" /\ repeats /\ Len(result) = 2 /\ nfetch >= 2

\* C2: the call issues at most max_pages fetches, and as long as it has not
\* ended it can take a step (it is never stuck before its return).
C2_AtMostMaxPagesFetches ==
    /\ nfetch <= max_pages
    /\ page_num <= max_pages
    /\ outcome = "pending" => ENABLED Next

\* The loop ran out of pages although the last response still had new items
\* and a cursor.
C2_Witness ==
    /\ outcome = "returned"
    /\ stop_reason = "max_pages"
    /\ max_pages >= 2
    /\ nfetch = max_pages
    /\ added_count > 0
    /\ cursor # ""

\* C3 (as claimed): with limit set to any integer, 0 included, at most limit
\* posts are returned and no fetch is issued once len(results) >= limit.
C3_LimitBoundsResultAndFetches ==
    [][limit # None =>
         /\ Len(collected_posts) >= limit[1] => nfetch' = nfetch
         /\ outcome' = "returned" => Len(result') <= limit[1]]_vars

\* C4 (as claimed): a call that ended on a login/registration page does not
\* end like a successful collection of zero items (a returned empty list).
C4_LoginRedirectDistinguishable ==
    (pc = "done" /\ page_url \in {"login", "register"})
        => ~(outcome = "returned" /\ result = <<>>)

FirstN(l, posts) ==
    IF l = None THEN posts ELSE SubSeq(posts, 1, Min(l[1], Len(posts)))

\* C6 (as claimed): when the fetch of page k fails no further fetch is
\* issued, and the call returns the posts accumulated from pages 1..k-1
\* truncated to limit.
C6_FetchFailureReturnsAccumulated ==
    (outcome = "returned" /\ stop_reason = "fetch_error")
        => /\ nfetch = acc_at_fail.nfetch
           /\ result = FirstN(limit, acc_at_fail.posts)

\* The same with limit unset or at least 1.
C6_HoldsForPositiveLimit ==
    (outcome = "returned" /\ stop_reason = "fetch_error" /\ limit # <<0>>)
        => /\ nfetch = acc_at_fail.nfetch
           /\ result = FirstN(limit, acc_at_fail.posts)

\* C7 (as claimed): no exception ever leaves the call.
C7_NeverRaises == outcome # "raised"

\* C8 (as claimed): a failure to normalise one item never ends the loop, and
\* every item that normalises is in the accumulator once its page is done.
C8_ItemFailureSkipsOnlyItem ==
    /\ stop_reason # "parse_error"
    /\ pc \in {"loop", "after_loop"}
         => delivered_ok \subseteq { collected_posts[i].id :
                                       i \in 1..Len(collected_posts) }

\* C9 (as claimed): after a page that added zero new items no fetch is issued.
C9_ZeroNewPageEndsCollection == [][zero_new => nfetch' = nfetch]_vars

\* The capture wait ends without a capture.
NoCaptureExit ==
    pc = "poll" /\ captured_headers = "" /\ polls = MaxPolls /\ pc' # "poll"

C10_WitnessX ==
    /\ platform = "x"
    /\ outcome = "returned"
    /\ page_url = "target"
    /\ captured_headers = ""

\* C11 (as claimed): when the call has returned or raised, the page it opened
\* is closed, whichever step it ended at (the installation of the
\* resource-blocking route included).
C11_PageClosedOnEveryExit == pc = "done" => page_state # "open"

\* The same for get_bookmarks alone, whose route is installed inside the try.
C11_HoldsForX == (platform = "x" /\ pc = "done") => page_state # "open"

\* No handle started by the scraper is open.
NoOpenHandle ==
    /\ self_context # "open"
    /\ self_browser # "open"
    /\ self_playwright # "open"
    /\ leaked_playwright = 0

\* C12 (as claimed): once close() has returned or raised, no browser, context
\* or driver handle started by the scraper is open.
C12_CloseReleasesEveryHandle ==
    (lpc = "idle" /\ last_op = "close") => NoOpenHandle

\* What close() does release: when it returns, the scraper holds no handle,
\* and no browser or context is open.
C12_ReturnedCloseDropsHeldHandles ==
    (lpc = "idle" /\ last_op = "close" /\ close_result = "returned")
        => /\ self_context = "none"
           /\ self_browser = "none"
           /\ self_playwright = "none"

\* A post built from a raw item without id.
HasNoId(post) == post.id = ""

\* C13 (as claimed): no post built from a raw item without id is in the
\* accumulator or in the returned list.
C13_NoPostWithoutId ==
    /\ \A i \in 1..Len(collected_posts) : ~HasNoId(collected_posts[i])
    /\ \A i \in 1..Len(result) : ~HasNoId(result[i])

\* The same for get_bookmarks alone.
C13_HoldsForX == platform = "x" => C13_NoPostWithoutId

\* The raw item has an id.
HasId(r) ==
    IF r.kind = "tweet" THEN r.rest_id \notin {Absent, Null, ""}
    ELSE r.id \notin {Absent, Null, ""}

\* The raw item has no author information.
NoAuthorInfo(r) ==
    IF r.kind = "tweet"
    THEN r.screen_name = Absent /\ r.name = Absent /\ r.user_rest_id = Absent
    ELSE r.author = Absent /\ r.author_fullname = Absent

HasSentinelAuthor(out) ==
    /\ out.status = "post"
    /\ out.post.author.id = DeletedId
    /\ out.post.author.username = DeletedUsername

\* C14 (as claimed): a raw item (submission, comment or tweet) with an id and
\* without author information normalises to a post whose author id and
\* username are the deleted-user sentinels.
C14_MissingAuthorGivesSentinel ==
    (npc = "done" /\ HasId(raw) /\ NoAuthorInfo(raw)) => HasSentinelAuthor(norm)

\* The same for Reddit submissions and comments alone.
C14_HoldsForReddit ==
    (npc = "done" /\ raw.kind # "tweet" /\ HasId(raw) /\ NoAuthorInfo(raw))
        => HasSentinelAuthor(norm)

\* What a tweet without author information normalises to, when its media
\* do not make the normalisation raise.
C14_TweetGetsEmptyAuthor ==
    (/\ npc = "done" /\ raw.kind = "tweet" /\ HasId(raw) /\ NoAuthorInfo(raw)
     /\ \A i \in DOMAIN raw.media : raw.media[i].media_url_https # Null)
        => /\ norm.status = "post"
           /\ norm.post.author.id = ""
           /\ norm.post.author.username = ""

(* ---- fuzzy search, stated without the code's loops ---- *)

IsSpace(str, i) == str[i] \in Whitespace

\* The whitespace-delimited tokens of a string: its maximal stretches
\* without whitespace.
TokensOf(str) ==
    { SubSeq(str, i, j) : <<i, j>> \in
        { ij \in (1..Len(str)) \X (1..Len(str)) :
            /\ ij[1] <= ij[2]
            /\ \A k \in ij[1]..ij[2] : ~IsSpace(str, k)
            /\ ij[1] = 1 \/ IsSpace(str, ij[1] - 1)
            /\ ij[2] = Len(str) \/ IsSpace(str, ij[2] + 1) } }

\* The characters of str at the positions in idx, in order.
RECURSIVE Pick(_, _, _)
Pick(str, idx, i) ==
    IF i > Len(str) THEN <<>>
    ELSE (IF i \in idx THEN <<str[i]>> ELSE <<>>) \o Pick(str, idx, i + 1)

\* sub[i..] can be read in b[j..] by leaving characters out.
RECURSIVE IsSubseq(_, _, _, _)
IsSubseq(sub, i, b, j) ==
    IF i > Len(sub) THEN TRUE
    ELSE IF j > Len(b) THEN FALSE
    ELSE IF sub[i] = b[j] THEN IsSubseq(sub, i + 1, b, j + 1)
    ELSE IsSubseq(sub, i, b, j + 1)

\* The most characters of a that can be kept so that what is left can be
\* read in b.
LongestCommon(a, b) ==
    LET sizes == { Cardinality(idx) : idx \in
                     { x \in SUBSET (1..Len(a)) :
                         IsSubseq(Pick(a, x, 1), 1, b, 1) } }
    IN CHOOSE n \in sizes : \A m \in sizes : m <= n

\* The similarity ratio of two non-empty strings is at least pct percent.
SimilarAtLeast(a, b, pct) ==
    200 * LongestCommon(a, b) >= pct * (Len(a) + Len(b))

\* Some token of the text is, up to case, the term.
ExactTokenMatch(term, text) ==
    \E tok \in TokensOf(text) : LowerStr(tok) = LowerStr(term)

\* Some token of the text is, up to case, within 100 - 10*t percent of the
\* term.
NearTokenMatch(term, text, t) ==
    \E tok \in TokensOf(text) :
        SimilarAtLeast(LowerStr(term), LowerStr(tok), 100 - 10 * t)

\* "Some whitespace token of the text matches the term".
TermMatches(term, text, t) ==
    \/ ExactTokenMatch(term, text)
    \/ t > 0 /\ Len(term) > 3 /\ NearTokenMatch(term, text, t)

\* fuzzy_search / fuzzy_word_match has returned.
SearchDone == fz_fn = "fuzzy_search" /\ fz_pc = "done"
WordMatchDone == fz_fn = "fuzzy_word_match" /\ fz_pc = "done"

\* C15: fuzzy_search returns true for an empty queries list, and otherwise
\* "every query matches some token" with match_all, "some query matches some
\* token" without.
C15_SearchCombinesPerQueryMatches ==
    SearchDone =>
        fz_out = IF fz_queries = <<>> THEN TRUE
                 ELSE IF fz_match_all
                      THEN \A i \in 1..Len(fz_queries) :
                             TermMatches(fz_queries[i], fz_text, fz_threshold)
                      ELSE \E i \in 1..Len(fz_queries) :
                             TermMatches(fz_queries[i], fz_text, fz_threshold)

\* Two queries of which exactly one matches: false with match_all.
C15_Witness ==
    /\ SearchDone
    /\ Len(fz_queries) = 2
    /\ fz_match_all
    /\ TermMatches(fz_queries[1], fz_text, fz_threshold)
    /\ ~TermMatches(fz_queries[2], fz_text, fz_threshold)
    /\ ~fz_out

\* The same two queries: true without match_all.
C15_WitnessAny ==
    /\ SearchDone
    /\ Len(fz_queries) = 2
    /\ ~fz_match_all
    /\ TermMatches(fz_queries[1], fz_text, fz_threshold)
    /\ ~TermMatches(fz_queries[2], fz_text, fz_threshold)
    /\ fz_out

\* An empty queries list matches a text without tokens.
C15_WitnessEmpty ==
    SearchDone /\ fz_queries = <<>> /\ fz_text = Empty /\ fz_out

\* C16: with fuzzy_threshold = 0 a term matches iff, lowercased, it is equal
\* to a lowercased token of the text.
C16_ThresholdZeroIsExact ==
    (WordMatchDone /\ fz_threshold = 0)
        => fz_out = ExactTokenMatch(fz_word, fz_text)

\* "Python" is found in "I love python tutorials" through lowercasing.
C16_Witness ==
    /\ WordMatchDone
    /\ fz_threshold = 0
    /\ fz_word = PythonCap
    /\ fz_text = LovePython
    /\ fz_out

\* A near-match is refused at threshold 0.
C16_WitnessNear ==
    /\ WordMatchDone
    /\ fz_threshold = 0
    /\ NearTokenMatch(fz_word, fz_text, 1)
    /\ ~fz_out

\* C17: a term of 3 characters or fewer matches at any threshold exactly
\* when it matches at threshold 0, that is by token equality.
C17_ShortTermNeverFuzzy ==
    (WordMatchDone /\ Len(fz_word) <= 3)
        => /\ fz_out = ExactTokenMatch(fz_word, fz_text)
           /\ fz_out = FuzzyWordMatch(fz_word, fz_text, 0)

\* "cat" is not found in a text with "cats" (ratio 85.7) at threshold 2.
C17_Witness ==
    /\ WordMatchDone
    /\ fz_word = Cat
    /\ fz_text = CatsCots
    /\ fz_threshold = 2
    /\ NearTokenMatch(fz_word, fz_text, fz_threshold)
    /\ ~fz_out

C18_WitnessBelowRatio ==
    /\ WordMatchDone
    /\ fz_word = Coat
    /\ fz_text = CatsCots
    /\ fz_threshold = 2
    /\ ~fz_out

\* C19 (as claimed): a call cancelled while suspended in the navigation, in
\* the capture wait or in a paginated fetch ends by returning the posts it
\* had collected.
C19_CancelReturnsCollected ==
    (pc = "done" /\ cancelled_in # "")
        => outcome = "returned" /\ result = collected_posts

\* Nothing collected is lost by a cancellation.
C19_NoCollectedPostLost ==
    (pc = "done" /\ cancelled_in # "") => collected_posts = <<>>

\* get_x_bookmarks(refresh=False) or the x://bookmarks resource, called while
\* a cache existed, has returned.
ServedWithCache ==
    /\ srv_pc = "returned"
    /\ cache_at_call # None
    /\ \/ tool.name = "get_x_bookmarks" /\ ~tool.refresh
       \/ tool.name = "list_bookmarks"

\* C20 (as claimed): such a call makes no collection, leaves the cache as it
\* was, and get_x_bookmarks returns the first `limit` cached posts.
C20_CacheServedWithoutRefresh ==
    ServedWithCache =>
        /\ collection = "none"
        /\ cached_bookmarks = cache_at_call
        /\ tool.name = "get_x_bookmarks"
             => response = FirstN(<<tool.limit>>, cache_at_call[1])

\* The cache part alone: no collection, cache unchanged, and what is
\* returned is taken from the cache.
C20_NoCollectionWithoutRequest ==
    ServedWithCache =>
        /\ collection = "none"
        /\ cached_bookmarks = cache_at_call
        /\ response = Returned(tool, cache_at_call[1])

\* The whole claim for limit >= 1.
C20_HoldsForPositiveLimit ==
    (ServedWithCache /\ (tool.name = "get_x_bookmarks" => tool.limit >= 1))
        => /\ collection = "none"
           /\ cached_bookmarks = cache_at_call
           /\ tool.name = "get_x_bookmarks"
                => response = FirstN(<<tool.limit>>, cache_at_call[1])

\* C21: the headers of the first matching request are the capture; once a
\* capture exists no later request changes it, and every fetch is issued
\* with the capture in place.
C21_FirstCaptureKept ==
    [][/\ captured_headers # "" => captured_headers' = captured_headers
       /\ (captured_headers = "" /\ captured_headers' \notin {"", "minimal"})
            => captured_headers' = RequestHeaders(1)
       /\ nfetch' > nfetch => captured_headers # ""]_vars

\* Two matching requests were observed and a page was fetched with the
\* headers of the first.
C21_Witness ==
    nreq = 2 /\ captured_headers = RequestHeaders(1) /\ nfetch >= 1

\* C22: the fetches of a call are issued one at a time, each after the
\* items of the previous response were processed; the first carries no
\* cursor, every later one carries the cursor of the previous response, and
\* no fetch follows a response without a cursor.
C22_FetchesCursorChained ==
    [][nfetch' # nfetch =>
         /\ nfetch' = nfetch + 1
         /\ pc = "loop" /\ items_left = 0
         /\ fetch_cursor' = (IF nfetch = 0 THEN "" ELSE resp_cursor)
         /\ nfetch > 0 => resp_cursor # ""]_vars

\* A third fetch was issued with the cursor of the second response, which
\* differs from the cursor of the first.
C22_Witness ==
    /\ nfetch = 3 /\ fetch_cursor = "c2" /\ resp_cursor = "c2"
    /\ stop_reason = "fetch_error"

\* A response without a cursor ended the call after one fetch.
C22_WitnessNoCursor ==
    nfetch = 1 /\ stop_reason = "no_cursor" /\ pc = "done"

\* A normalised post with a Media record whose url is empty.
HasEmptyMediaUrl ==
    /\ npc = "done"
    /\ norm.status = "post"
    /\ \E i \in DOMAIN norm.post.media : norm.post.media[i].url = ""

\* C23: no normalised post carries a Media record with an empty url.
C23_NoMediaWithoutUrl == ~HasEmptyMediaUrl

\* For a submission or a comment it holds: a preview image without source
\* url and an empty direct url are skipped.
C23_HoldsForReddit ==
    raw.kind \in {"t3", "t1"} => ~HasEmptyMediaUrl

\* A submission whose preview has no usable url is normalised without
\* media.
C23_RedditSkips ==
    /\ npc = "done" /\ raw.kind = "t3" /\ norm.status = "post"
    /\ raw.preview_url = "" /\ raw.url = ""
    /\ norm.post.media = << >>

(* ---- one call of RedditScraper.search_saved ---- *)

SearchSaved ==
    /\ search_pc = "call"
    /\ search_results' = SearchSavedFrom(search_posts, 1, <<>>, search_queries,
                                         search_match_all, search_threshold,
                                         search_limit, search_subreddit)
    /\ search_pc' = "done"
    /\ UNCHANGED <<notsearch, searchargs>>

SearchNext == SearchSaved

SearchInit ==
    /\ platform = "reddit"
    /\ CallIdle
    /\ LifeInit
    /\ NormIdle
    /\ FuzzIdle
    /\ SrvInit
    /\ search_pc = "call"
    /\ search_posts \in SearchPostLists
    /\ search_queries \in SearchQueryLists
    /\ search_match_all \in BOOLEAN
    /\ search_threshold \in {0, DefaultThreshold}
    /\ search_limit \in LimitArgs
    /\ search_subreddit \in SubredditArgs
    /\ search_results = <<>>
    /\ PairIdle
    /\ ConcIdle
    /\ ClientIdle
    /\ RedditServerIdle
    /\ AuthIdle

SearchSpec == SearchInit /\ [][SearchNext]_vars

\* The posts that pass the subreddit filter and the search, in input order.
PassingPosts ==
    SelectSeq(search_posts,
              LAMBDA item :
                /\ search_subreddit # None
                     => LowerStr(item.subreddit) = LowerStr(search_subreddit)
                /\ FuzzySearch(item.content, search_queries, search_match_all,
                               search_threshold))

\* C24: search_saved returns the posts that pass the subreddit filter and
\* fuzzy_search, in input order, cut off after the first `limit` of them
\* when a limit is set.
C24_SearchSavedIsFilteredPrefix ==
    search_pc = "done" => search_results = FirstN(search_limit, PassingPosts)

\* With no limit or a limit of at least 1 it holds.
C24_HoldsForPositiveLimit ==
    (search_pc = "done" /\ search_limit # <<0>>)
        => search_results = FirstN(search_limit, PassingPosts)

\* A search cut off by its limit, with a subreddit given in another case.
C24_CutOffReached ==
    /\ search_pc = "done"
    /\ search_limit = <<1>> /\ Len(PassingPosts) = 2
    /\ search_subreddit = SubPyUpper
    /\ search_results = <<search_posts[1]>>

(* ---- two calls given the same responses ---- *)

\* Fetch k of each call that is still in its loop is answered by the same
\* response.
PairIterate ==
    /\ pair_pc = "loop"
    /\ with_limit.stop = "" \/ no_limit.stop = ""
    /\ \E resp \in Responses(platform) :
         /\ with_limit' = Iteration(platform, with_limit, resp, pair_limit,
                                    pair_max_pages, pair_filter)
         /\ no_limit' = Iteration(platform, no_limit, resp, None,
                                  pair_max_pages, pair_filter)
    /\ UNCHANGED <<notpair, pair_pc, pairargs>>

\* Both calls left the loop and return their lists.
PairReturn ==
    /\ pair_pc = "loop"
    /\ with_limit.stop # "" /\ no_limit.stop # ""
    /\ with_limit' = [with_limit EXCEPT
                        !.posts = Truncate(pair_limit, with_limit.posts)]
    /\ no_limit' = [no_limit EXCEPT !.posts = Truncate(None, no_limit.posts)]
    /\ pair_pc' = "done"
    /\ UNCHANGED <<notpair, pairargs>>

PairNext == PairIterate \/ PairReturn

PairInit ==
    /\ platform \in Platforms
    /\ CallIdle
    /\ LifeInit
    /\ NormIdle
    /\ FuzzIdle
    /\ SrvInit
    /\ SearchIdle
    /\ ConcIdle
    /\ ClientIdle
    /\ RedditServerIdle
    /\ AuthIdle
    /\ pair_pc = "loop"
    /\ pair_limit \in { <<n>> : n \in 1..MaxLimit }
    /\ pair_max_pages \in 0..MaxPagesArg
    /\ pair_filter \in (IF platform = "reddit" THEN FilterTypes ELSE {"none"})
    /\ with_limit = RunStart
    /\ no_limit = RunStart

PairSpec == PairInit /\ [][PairNext]_vars

IsPrefix(s, t) == Len(s) <= Len(t) /\ s = SubSeq(t, 1, Len(s))

\* C25: given the same responses and failures, the list returned with a
\* limit of at least 1 is a prefix of the list returned without limit.
C25_LimitedIsPrefixOfUnlimited ==
    pair_pc = "done" => IsPrefix(with_limit.posts, no_limit.posts)

\* The limit cut the list: the call without limit went on to another page
\* and returned more.
C25_Witness ==
    /\ pair_pc = "done"
    /\ with_limit.stop = "limit"
    /\ Len(with_limit.posts) = 1
    /\ Len(no_limit.posts) = 2
    /\ no_limit.page_num > with_limit.page_num

\* The limit cut one page short: both calls saw the same page.
C25_WitnessTruncated ==
    /\ pair_pc = "done"
    /\ with_limit.page_num = 1 /\ no_limit.page_num = 1
    /\ Len(with_limit.posts) = 1 /\ Len(no_limit.posts) = 2

(* ---- calls of _get_context interleaved at their awaits ---- *)

\* The calls suspended inside _get_context.
Suspended(t) == tasks[t].pc \in {"start", "launch", "new_context", "add_cookies"}

\* _get_context up to its first await: `if self._context is None`, then
\* `if self._browser is None` of _get_browser.
EnterGetContext(t) ==
    /\ tasks[t].pc = "call"
    /\ tasks' = [tasks EXCEPT ![t] =
                   IF shared.context # 0
                   THEN [@ EXCEPT !.pc = "returned", !.context = shared.context]
                   ELSE IF shared.browser = 0 THEN [@ EXCEPT !.pc = "start"]
                   ELSE [@ EXCEPT !.pc = "new_context",
                                  !.browser = shared.browser]]
    /\ overlap' = (overlap \/ \E u \in Tasks \ {t} : Suspended(u))
    /\ UNCHANGED <<notconc, shared, created>>

\* async_playwright().start() returns a new driver, which the shared
\* scraper class keeps in self._playwright and XScraper in a local; the
\* call is suspended in launch.
StartReturns(t) ==
    /\ tasks[t].pc = "start"
    /\ created' = [created EXCEPT !.playwrights = @ + 1]
    /\ shared' = IF KeepsPlaywright(platform)
                 THEN [shared EXCEPT !.playwright = created.playwrights + 1]
                 ELSE shared
    /\ tasks' = [tasks EXCEPT ![t].pc = "launch"]
    /\ UNCHANGED <<notconc, overlap>>

\* launch returns a new browser: self._browser = it; _get_browser returns
\* self._browser and the call is suspended in new_context.
LaunchReturns(t) ==
    /\ tasks[t].pc = "launch"
    /\ created' = [created EXCEPT !.browsers = @ + 1]
    /\ shared' = [shared EXCEPT !.browser = created.browsers + 1]
    /\ tasks' = [tasks EXCEPT ![t].pc = "new_context",
                              ![t].browser = created.browsers + 1]
    /\ UNCHANGED <<notconc, overlap>>

\* new_context returns a new context: self._context = it; the call is
\* suspended in add_cookies.
NewContextReturns(t) ==
    /\ tasks[t].pc = "new_context"
    /\ created' = [created EXCEPT !.contexts = @ + 1]
    /\ shared' = [shared EXCEPT !.context = created.contexts + 1]
    /\ tasks' = [tasks EXCEPT ![t].pc = "add_cookies"]
    /\ UNCHANGED <<notconc, overlap>>

\* add_cookies returns; return self._context.
AddCookiesReturns(t) ==
    /\ tasks[t].pc = "add_cookies"
    /\ tasks' = [tasks EXCEPT ![t].pc = "returned",
                              ![t].context = shared.context]
    /\ UNCHANGED <<notconc, shared, created, overlap>>

ConcNext ==
    \E t \in Tasks :
        \/ EnterGetContext(t)
        \/ StartReturns(t)
        \/ LaunchReturns(t)
        \/ NewContextReturns(t)
        \/ AddCookiesReturns(t)

ConcInit ==
    /\ platform \in Platforms
    /\ CallIdle
    /\ LifeInit
    /\ NormIdle
    /\ FuzzIdle
    /\ SrvInit
    /\ SearchIdle
    /\ PairIdle
    /\ ClientIdle
    /\ RedditServerIdle
    /\ AuthIdle
    /\ tasks = [t \in Tasks |-> [pc |-> "call", browser |-> 0, context |-> 0]]
    /\ shared = [playwright |-> 0, browser |-> 0, context |-> 0]
    /\ created = [playwrights |-> 0, browsers |-> 0, contexts |-> 0]
    /\ overlap = FALSE

ConcSpec == ConcInit /\ [][ConcNext]_vars

\* C26: calls interleaved on a scraper without browser and context create
\* at most one browser and one context.
C26_OneBrowserOneContext ==
    created.browsers <= 1 /\ created.contexts <= 1

\* Calls made one after the other do.
C26_HoldsWithoutOverlap ==
    ~overlap => C26_OneBrowserOneContext

\* Two calls returned and the first browser is held by nothing.
C26_BrowserUnreachable ==
    /\ \A t \in Tasks : tasks[t].pc = "returned"
    /\ created.browsers = 2
    /\ shared.browser = 2

(* ---- XClient.get_all_bookmarks, consumed to the end ---- *)

ApiCap == 800
PageCap == 100

\* max_count = limit or 800
MaxCount(l) == IF Truthy(l) THEN l[1] ELSE ApiCap

\* page_size = min(100, max_count - count)
PageSize(l, n) == Min(PageCap, MaxCount(l) - n)

\* The numbers of tweets a response can hold: none, one, a full page.
PageLengths(l, n) == {0, 1, PageSize(l, n)}

\* while count < max_count is false: the generator ends.
ClientLoopExit ==
    /\ client_pc = "loop"
    /\ ~(count < MaxCount(client_limit))
    /\ client_pc' = "done"
    /\ UNCHANGED <<notclient, client_limit, count, pagination_token,
                   page_requests, empty_page>>

\* get_bookmarks_page raises (raise_for_status, the transport, the token),
\* or _parse_tweet raises on a tweet of the response: the exception leaves
\* the generator.
ClientPageRaises ==
    /\ client_pc = "loop"
    /\ count < MaxCount(client_limit)
    /\ page_requests < MaxPageRequests
    /\ page_requests' = page_requests + 1
    /\ client_pc' = "raised"
    /\ UNCHANGED <<notclient, client_limit, count, pagination_token,
                   empty_page>>

\* One iteration: the page is requested with pagination_token, its tweets
\* are yielded until count reaches max_count, then next_token is read and
\* the loop is left when there is none.
ClientPage ==
    /\ client_pc = "loop"
    /\ count < MaxCount(client_limit)
    /\ page_requests < MaxPageRequests
    /\ \E n \in PageLengths(client_limit, count), next_token \in Cursors :
         /\ count' = Min(count + n, MaxCount(client_limit))
         /\ pagination_token' = next_token
         /\ client_pc' = IF next_token = "" THEN "done" ELSE "loop"
         /\ empty_page' = (empty_page \/ (n = 0 /\ next_token # ""))
    /\ page_requests' = page_requests + 1
    /\ UNCHANGED <<notclient, client_limit>>

ClientNext == ClientLoopExit \/ ClientPageRaises \/ ClientPage

ClientInit ==
    /\ platform = "x"
    /\ CallIdle
    /\ LifeInit
    /\ NormIdle
    /\ FuzzIdle
    /\ SrvInit
    /\ SearchIdle
    /\ PairIdle
    /\ ConcIdle
    /\ RedditServerIdle
    /\ AuthIdle
    /\ client_pc = "loop"
    /\ client_limit \in LimitArgs
    /\ ClientStart

ClientSpec == ClientInit /\ [][ClientNext]_vars

\* C27: get_all_bookmarks issues a bounded number of page requests
\* whatever the API answers: every request but the last yields a bookmark,
\* so there are at most max_count of them.
C27_PageRequestsBounded ==
    page_requests <= MaxCount(client_limit)

\* Without a response that holds no tweet and a next_token, it holds.
C27_BoundedWithoutEmptyPage ==
    ~empty_page => C27_PageRequestsBounded

\* Responses without tweets and with a next_token: the generator yielded
\* nothing and is about to request one more page, however many it requested.
C27_EmptyPagesGoOn ==
    /\ client_pc = "loop"
    /\ page_requests = MaxPageRequests
    /\ count = 0
    /\ count < MaxCount(client_limit)

(* ---- the Reddit server: handlers run one after the other ---- *)

\* scraper.get_saved(limit=l) on the account when the collection goes
\* through.
GetSaved(l) == Truncate(l, account)

\* _ensure_cache(limit): the cache is filled when it is empty.
EnsureCache(cache, l) == IF cache = <<>> THEN GetSaved(l) ELSE cache

\* The handler's get_saved raises: the handler raises and the cache stays.
HandlerRaises ==
    /\ reddit_tool' = "raised"
    /\ handled' = handled + 1
    /\ UNCHANGED <<notrsrv, saved_cache, account, searched>>

\* get_reddit_saved(limit): the cache becomes the list returned.
GetRedditSaved ==
    /\ handled < MaxOps
    /\ \/ \E l \in LimitArgs \ {None} :
            /\ saved_cache' = GetSaved(l)
            /\ reddit_tool' = "get_reddit_saved"
            /\ handled' = handled + 1
            /\ UNCHANGED <<notrsrv, account, searched>>
       \/ HandlerRaises

\* search_reddit_saved: the search goes through what _ensure_cache()
\* returns.
SearchRedditSaved ==
    /\ handled < MaxOps
    /\ \/ /\ saved_cache' = EnsureCache(saved_cache, None)
          /\ searched' = saved_cache'
          /\ reddit_tool' = "search_reddit_saved"
          /\ handled' = handled + 1
          /\ UNCHANGED <<notrsrv, account>>
       \/ saved_cache = <<>> /\ HandlerRaises

\* The resource reddit://saved: a collection without limit fills the cache.
ListSaved ==
    /\ handled < MaxOps
    /\ \/ /\ saved_cache' = GetSaved(None)
          /\ reddit_tool' = "list_saved"
          /\ handled' = handled + 1
          /\ UNCHANGED <<notrsrv, account, searched>>
       \/ HandlerRaises

\* get_reddit_saved_posts / _comments and their resources collect and leave
\* the cache alone.
GetRedditSavedFiltered ==
    /\ handled < MaxOps
    /\ reddit_tool' = "get_reddit_saved_posts"
    /\ handled' = handled + 1
    /\ UNCHANGED <<notrsrv, saved_cache, account, searched>>

RedditServerNext ==
    GetRedditSaved \/ SearchRedditSaved \/ ListSaved \/ GetRedditSavedFiltered

RedditServerInit ==
    /\ platform = "reddit"
    /\ CallIdle
    /\ LifeInit
    /\ NormIdle
    /\ FuzzIdle
    /\ SrvInit
    /\ SearchIdle
    /\ PairIdle
    /\ ConcIdle
    /\ ClientIdle
    /\ AuthIdle
    /\ account \in Collections
    /\ RedditServerStart

RedditServerSpec == RedditServerInit /\ [][RedditServerNext]_vars

\* C28: the list search_reddit_saved goes through is what a collection
\* without limit returns, never a list cut by the limit of an earlier
\* get_reddit_saved.
C28_SearchUsesUnlimitedCollection ==
    reddit_tool = "search_reddit_saved" => searched = GetSaved(None)

\* A search on an empty cache collects without limit.
C28_EmptyCacheCollectsAll ==
    [][(reddit_tool' = "search_reddit_saved" /\ handled' # handled
        /\ saved_cache = <<>>) => searched' = GetSaved(None)]_vars

\* A search went through a cache that get_reddit_saved had cut to one item
\* of two.
C28_TruncatedCacheSearched ==
    /\ reddit_tool = "search_reddit_saved"
    /\ Len(account) = 2
    /\ Len(searched) = 1

\* get_x_bookmarks(refresh=False) is about to answer from the cache, without
\* a collection of its own.
ServesFromCache ==
    /\ srv_pc \in {"respond", "returned"}
    /\ tool.name = "get_x_bookmarks" /\ ~tool.refresh
    /\ collection = "none"

\* C29: a get_bookmarks that ended in a login redirect or without captured
\* headers leaves nothing in the cache that get_x_bookmarks(refresh=False)
\* serves: that call collects again.
C29_FailedCollectionNotServed ==
    ServesFromCache => cache_end \notin {"login", "no_capture"}

\* A get_bookmarks that raised leaves the cache as it was.
C29_RaisedCollectionNotCached ==
    collection = "raise" => cached_bookmarks = cache_at_call

\* The empty list of a login redirect was served from the cache.
C29_EmptyListServed ==
    /\ ServesFromCache /\ srv_pc = "returned"
    /\ cache_end = "login"
    /\ response = <<>>

(* ---- XAuthHandler.get_valid_token ---- *)

BufferMinutes == 5
DefaultExpiresIn == 7200
\* An expires_in that is no longer than the buffer of is_expired.
ShortExpiresIn == BufferMinutes * 60

\* timedelta(seconds=n), on the clock of the model.
Minutes(seconds) == seconds \div 60

\* TokenData.is_expired
IsExpired(td, t) ==
    IF td.expires_at = None THEN FALSE
    ELSE t >= td.expires_at[1] - BufferMinutes

\* The token data an XAuthHandler or its token file can hold.
ExpiryTimes == 0..(BufferMinutes + MaxClock)
TokenDatas ==
    [access_token : {1},
     expires_at : {None} \cup { <<t>> : t \in ExpiryTimes },
     refresh_token : BOOLEAN]

\* _load_tokens when self._token_data is falsy.
LoadTokens(td, file) == IF td = None THEN file ELSE td

\* get_valid_token up to its return, its raise or the await of the refresh
\* request; refresh_access_token raises without a refresh token.
GetValidToken ==
    /\ auth_pc = "call"
    /\ token_data' = LoadTokens(token_data, token_file)
    /\ IF token_data' = None
       THEN auth_pc' = "raised" /\ UNCHANGED access_token
       ELSE IF IsExpired(token_data', now)
       THEN /\ auth_pc' = IF token_data'.refresh_token THEN "refresh"
                          ELSE "raised"
            /\ UNCHANGED access_token
       ELSE /\ auth_pc' = "returned"
            /\ access_token' = token_data'.access_token
    /\ UNCHANGED <<notauth, now, token_file>>

\* Time passes while the refresh request is awaited.
Tick ==
    /\ auth_pc = "refresh"
    /\ now < MaxClock
    /\ now' = now + 1
    /\ UNCHANGED <<notauth, auth_pc, token_data, token_file, access_token>>

\* The refresh request is answered: the new token data replace the old and
\* are saved, and get_valid_token returns their access token.
RefreshReturns ==
    /\ auth_pc = "refresh"
    /\ \E expires_in \in {ShortExpiresIn, DefaultExpiresIn} :
         token_data' = [access_token |-> token_data.access_token + 1,
                        expires_at |-> <<now + Minutes(expires_in)>>,
                        refresh_token |-> TRUE]
    /\ token_file' = token_data'
    /\ access_token' = token_data'.access_token
    /\ auth_pc' = "returned"
    /\ UNCHANGED <<notauth, now>>

\* The refresh request fails: raise_for_status raises.
RefreshRaises ==
    /\ auth_pc = "refresh"
    /\ auth_pc' = "raised"
    /\ UNCHANGED <<notauth, now, token_data, token_file, access_token>>

AuthNext == GetValidToken \/ Tick \/ RefreshReturns \/ RefreshRaises

AuthInit ==
    /\ platform = "x"
    /\ CallIdle
    /\ LifeInit
    /\ NormIdle
    /\ FuzzIdle
    /\ SrvInit
    /\ SearchIdle
    /\ PairIdle
    /\ ConcIdle
    /\ ClientIdle
    /\ RedditServerIdle
    /\ auth_pc = "call"
    /\ now = 0
    /\ token_data \in {None} \cup TokenDatas
    /\ token_file \in {None} \cup TokenDatas
    /\ access_token = 0

AuthSpec == AuthInit /\ [][AuthNext]_vars

\* C30: when get_valid_token returns, the token is the access token of
\* token data that are not expired at that moment.
C30_ReturnedTokenNotExpired ==
    auth_pc = "returned"
        => /\ token_data # None
           /\ access_token = token_data.access_token
           /\ ~IsExpired(token_data, now)

\* A token returned without a refresh is not expired.
C30_HoldsWithoutRefresh ==
    (auth_pc = "returned" /\ access_token = 1) => ~IsExpired(token_data, now)

\* Without token data in the handler and in the file, the call raises.
C30_RaisesWithoutTokenData ==
    [][(auth_pc = "call" /\ token_data = None /\ token_file = None)
         => auth_pc' = "raised"]_vars

\* The token of a refresh was returned although it expires within the
\* buffer.
C30_ExpiredAfterRefresh ==
    /\ auth_pc = "returned"
    /\ access_token = 2
    /\ IsExpired(token_data, now)

\* The call raised for want of token data.
C30_RaisedUnauthenticated ==
    auth_pc = "raised" /\ token_data = None
====
